---- MODULE Spec2Model ----
(***************************************************************************)
(* Plan lifecycle of the file organizer (filesystem-daemon) and of the     *)
(* note organizer (obsidian-cleanup): plan store, correction store,        *)
(* classification, review, revision and execution.                         *)
(*                                                                         *)
(* One behaviour is one installation: `variant` is fixed at start and      *)
(* selects which of the two code bases the actions are translated from.    *)
(***************************************************************************)
EXTENDS Integers, Sequences, FiniteSets, TLC

VARIABLES
    variant,      \* "file" (filesystem-daemon) or "note" (obsidian-cleanup)
    plans,        \* plan table, rows in created_at order
    corrections,  \* corrections table, rows in created_at order
    fs,           \* set of paths that exist on disk
    lost,         \* paths whose previous content was replaced by a move
    now,          \* wall clock, in seconds
    orgPc,        \* position of the running file `organize` command
    orgDir,       \* directory the organize command scans
    orgList,      \* in-memory plans the running interactive review has left
    orgFiles,     \* files found by the scan of the running organize command
    nextId,       \* next fresh plan / correction id (uuid4)
    oracle,       \* the Oracle call a classifier is applied to, with its response
    service       \* the productivity_service application: the daily note, the
                  \* request it handles and its response

vars == <<variant, plans, corrections, fs, lost, now, orgPc, orgDir, orgList, orgFiles,
          nextId, oracle, service>>

-----------------------------------------------------------------------------
(* Bounds *)

MaxPlans == 2
MaxCorr == 1
MaxTime == 1

-----------------------------------------------------------------------------
(* Values *)

NoId == 0
NoName == "none"
NoPath == <<"none", "", "none", "", 0>>
NoDomain == "none"
NoMsg == "none"

\* a path is <<folder, subfolder, file name, separator, counter>>; the last
\* two are the suffix the executors insert between stem and extension
Path(dir, sub, name) == <<dir, sub, name, "", 0>>
Suffixed(p, sep, n) == <<p[1], p[2], p[3], sep, n>>
NameOf(p) == p[3]
InDir(p, q) == <<q[1], q[2], p[3], p[4], p[5]>>
WithName(p, name) == <<p[1], p[2], name, "", 0>>

\* the items of one installation: a file of the same name in each of the two
\* watched folders, or a note of the same name in two unprotected vault folders
FileSources == {Path("Desktop", "", "scan.pdf"), Path("Downloads", "", "scan.pdf")}
NoteSources == {Path("30 - Notes", "", "scan.md"), Path("31 - Drafts", "", "scan.md")}
SourcesOf(v) == IF v = "file" THEN FileSources ELSE NoteSources
ScanDirsOf(v) == {p[1] : p \in SourcesOf(v)}
\* the standardized name the Oracle may suggest
CleanName == "2024-scan.pdf"

PENDING == "pending"
APPROVED == "approved"
EXECUTED == "executed"
REJECTED == "rejected"
FAILED == "failed"
REVISED == "revised"
PlanStatus == {PENDING, APPROVED, EXECUTED, REJECTED, FAILED, REVISED}

MOVE == "move"
DELETE == "delete"
ARCHIVE == "archive"
SKIP == "skip"
RENAME == "rename"
FileAction == {MOVE, DELETE, ARCHIVE, SKIP, RENAME}
NoteAction == {MOVE, ARCHIVE, SKIP}

Domains == {"Finance", "Family", "Work", "Health", "Property", "Personal"}
DefaultSubfolder == "Documents"
NoSub == "none"

\* settings.areas_path / domain / subfolder / filename
AreaPath(domain, sub, name) == Path(domain, sub, name)
\* settings.areas_path / "Personal" / "Archive" / filename
ArchivePath(name) == Path("Personal", "Archive", name)
\* get_area_path(area, filename) and get_archive_path(filename), note vault
NoteAreaPath(area, name) == Path("40 - Areas", area, name)
NoteArchivePath(name) == Path("60 - Archives", "", name)

AreaFolders == {"41 - Finance", "44 - Health"}

-----------------------------------------------------------------------------
(* File names and regular expressions *)

\* a file name is read as its sequence of tokens; no token is a substring of
\* another, so `kw in filename` is membership of the token
Tokens(name) ==
    CASE name = "invoice.pdf" -> <<"invoice", ".pdf">>
      [] name = "scan.pdf" -> <<"scan", ".pdf">>
      [] name = "2024-scan.pdf" -> <<"2024", "scan", ".pdf">>
      [] name = "invoice.md" -> <<"invoice", ".md">>
      [] name = "scan.md" -> <<"scan", ".md">>
      [] name = "app.dmg" -> <<"app", ".dmg">>
      [] name = ".DS_Store" -> <<".DS_Store">>
      [] name = "2024_Tax_Return.pdf" -> <<"2024", "_", "Tax", "_", "Return", ".pdf">>
      [] name = "Tax_Return_2024.pdf" -> <<"Tax", "_", "Return", "_", "2024", ".pdf">>
      [] name = "trading-invoice.pdf" -> <<"trading", "-", "invoice", ".pdf">>
      [] name = "receipt-medical.pdf" -> <<"receipt", "-", "medical", ".pdf">>
      [] name = "invoice.dmg" -> <<"invoice", ".dmg">>
      [] name = "scan.tmp" -> <<"scan", ".tmp">>
      [] name = "notes.txt" -> <<"notes", ".txt">>
      [] name = "trading-health.md" -> <<"trading", "-", "health", ".md">>
      [] name = "health.md" -> <<"health", ".md">>
      [] name = ".draft.md" -> <<".draft", ".md">>
      [] OTHER -> <<name>>

\* str.lower()
Lower(t) ==
    CASE t = "Tax" -> "tax"
      [] t = "Return" -> "return"
      [] t = "Invoice" -> "invoice"
      [] t = "Scan" -> "scan"
      [] t = "Finance" -> "finance"
      [] OTHER -> t

LowerAll(toks) == [i \in 1..Len(toks) |-> Lower(toks[i])]

\* `needle in haystack` for two file names: a contiguous run of tokens
IsSubName(needle, hay) ==
    \E i \in 0..(Len(hay) - Len(needle)) :
        \A j \in 1..Len(needle) : needle[j] = hay[i + j]

\* a regular expression is a sequence of literals separated by `.*`; "#4" is
\* \d{4}, a trailing "$" anchors the end, "(" does not compile (re.error);
\* <<>> is None
NoPattern == <<>>
BadPattern == <<"(">>
Compiles(pat) == \A i \in 1..Len(pat) : pat[i] # "("
TokMatch(p, t) == IF p = "#4" THEN t \in {"2024"} ELSE Lower(p) = Lower(t)

RECURSIVE MatchFrom(_, _, _, _)
MatchFrom(pat, i, toks, j) ==
    IF i > Len(pat) THEN TRUE
    ELSE IF pat[i] = "$" THEN j = Len(toks) + 1
    ELSE \E k \in j..Len(toks) :
            TokMatch(pat[i], toks[k]) /\ MatchFrom(pat, i + 1, toks, k + 1)

\* re.search(pattern, filename, re.IGNORECASE)
RegexSearch(pat, name) == MatchFrom(pat, 1, Tokens(name), 1)

-----------------------------------------------------------------------------
(* Plans and corrections *)

\* FilePlan / NotePlan; a NotePlan keeps its target_area in `domain` and has
\* no category, subfolder or suggested_name.  confidence is in percent.
NewPlan(src, action, dest, category, domain, sub, conf, reasoning, source) ==
    [id |-> NoId, source_path |-> src, action |-> action,
     destination_path |-> dest, category |-> category, domain |-> domain,
     subfolder |-> sub, confidence |-> conf, reasoning |-> reasoning,
     classification_source |-> source, status |-> PENDING,
     error_message |-> NoMsg, original_plan_id |-> NoId,
     revision_count |-> 0, suggested_name |-> NoName]

\* Correction; a note Correction keeps corrected_area in corrected_domain
NewCorrection(id, orig, action, domain, sub, pat, kws) ==
    [id |-> id, original_filename |-> orig, corrected_action |-> action,
     corrected_domain |-> domain, corrected_subfolder |-> sub,
     filename_pattern |-> pat, keywords |-> kws, times_applied |-> 0,
     last_applied |-> -1]

RemoveAt(seq, i) == [j \in 1..(Len(seq) - 1) |-> IF j < i THEN seq[j] ELSE seq[j + 1]]

\* get_all_corrections had it ORDER BY times_applied ASC, created_at DESC
RECURSIVE least_applied_first(_)
least_applied_first(cs) ==
    IF cs = <<>> THEN <<>>
    ELSE LET first == CHOOSE i \in 1..Len(cs) : \A j \in 1..Len(cs) :
                        j # i => \/ cs[i].times_applied < cs[j].times_applied
                                 \/ /\ cs[i].times_applied = cs[j].times_applied
                                    /\ i > j
         IN <<cs[first]>> \o least_applied_first(RemoveAt(cs, first))

\* get_all_corrections: ORDER BY times_applied DESC, created_at DESC
RECURSIVE get_all_corrections(_)
get_all_corrections(cs) ==
    IF cs = <<>> THEN <<>>
    ELSE LET first == CHOOSE i \in 1..Len(cs) : \A j \in 1..Len(cs) :
                        j # i => \/ cs[i].times_applied > cs[j].times_applied
                                 \/ /\ cs[i].times_applied = cs[j].times_applied
                                    /\ i > j
         IN <<cs[first]>> \o get_all_corrections(RemoveAt(cs, first))

KeywordHits(c, name) ==
    Cardinality({i \in 1..Len(c.keywords) :
        \E k \in 1..Len(Tokens(name)) : Lower(c.keywords[i]) = Lower(Tokens(name)[k])})

PatternHits(c, name) ==
    /\ c.filename_pattern # NoPattern
    /\ Compiles(c.filename_pattern)
    /\ RegexSearch(c.filename_pattern, name)

\* get_relevant_corrections had it give 3 for the pattern and 5 for the name
ScoreSwapped(c, name) ==
    2 * KeywordHits(c, name)
    + (IF PatternHits(c, name) THEN 3 ELSE 0)
    + (IF IsSubName(LowerAll(Tokens(c.original_filename)), LowerAll(Tokens(name)))
       THEN 5 ELSE 0)

\* the score get_relevant_corrections gives one correction
Score(c, name) ==
    2 * KeywordHits(c, name)
    + (IF PatternHits(c, name) THEN 5 ELSE 0)
    + (IF IsSubName(LowerAll(Tokens(c.original_filename)), LowerAll(Tokens(name)))
       THEN 3 ELSE 0)

\* list.sort(key=score, reverse=True): stable, highest score first
RECURSIVE SortByScore(_, _)
SortByScore(cs, name) ==
    IF cs = <<>> THEN <<>>
    ELSE LET first == CHOOSE i \in 1..Len(cs) : \A j \in 1..Len(cs) :
                        j # i => \/ Score(cs[i], name) > Score(cs[j], name)
                                 \/ /\ Score(cs[i], name) = Score(cs[j], name)
                                    /\ i < j
         IN <<cs[first]>> \o SortByScore(RemoveAt(cs, first), name)

get_relevant_corrections(cs, name, limit) ==
    LET all == get_all_corrections(cs)
        relevant == SelectSeq(all, LAMBDA c : Score(c, name) > 0)
        sorted == SortByScore(relevant, name)
    IN SubSeq(sorted, 1, IF Len(sorted) < limit THEN Len(sorted) ELSE limit)

\* increment_correction_usage whose UPDATE has no WHERE id = ? clause
increment_every_usage(cs, id, t) ==
    [i \in 1..Len(cs) |->
        [cs[i] EXCEPT !.times_applied = @ + 1, !.last_applied = t]]

\* increment_correction_usage
increment_correction_usage(cs, id, t) ==
    [i \in 1..Len(cs) |->
        IF cs[i].id = id
        THEN [cs[i] EXCEPT !.times_applied = @ + 1, !.last_applied = t]
        ELSE cs[i]]

-----------------------------------------------------------------------------
(* Rule-based classification *)

\* settings.ai_confidence_threshold (percent)
FileAiThreshold == 80
NoteAiThreshold == 100
\* the limit classify_file and classify_note pass to get_relevant_corrections
RelevantLimit == 5

\* _should_ignore: ignore_patterns (substring, or suffix for "*.ext"), then
\* hidden files
ShouldIgnore(name) ==
    LET toks == Tokens(name)
    IN \/ \E k \in 1..Len(toks) : toks[k] \in {".DS_Store", ".localized"}
       \/ toks[Len(toks)] \in {".tmp", ".part", ".crdownload", ".canvas", ".excalidraw"}
       \/ toks[1] \in {".DS_Store", ".localized", ".hidden", ".draft"}

\* RULES, in definition order (mac_installers, temp_files, trading_research,
\* financial_statements, receipts, health_documents, pdf_documents)
RULES ==
    << [name |-> "mac_installers",
        patterns |-> << <<".dmg", "$">>, <<".pkg", "$">> >>,
        category |-> "installer", action |-> DELETE, domain |-> NoDomain,
        subfolder |-> NoSub, confidence |-> 95],
       [name |-> "temp_files",
        patterns |-> << <<".tmp", "$">>, <<".part", "$">>, <<".crdownload", "$">> >>,
        category |-> "download", action |-> DELETE, domain |-> NoDomain,
        subfolder |-> NoSub, confidence |-> 95],
       [name |-> "trading_research",
        patterns |-> << <<"SA2">>, <<"42Macro">>, <<"trading">>, <<"backtest">> >>,
        category |-> "trading", action |-> MOVE, domain |-> "Finance",
        subfolder |-> "Research", confidence |-> 85],
       [name |-> "financial_statements",
        patterns |-> << <<"statement">>, <<"invoice">>, <<"tax", "#4">>,
                        <<"1099">>, <<"bank", "statement">> >>,
        category |-> "document", action |-> MOVE, domain |-> "Finance",
        subfolder |-> "Documents", confidence |-> 85],
       [name |-> "receipts",
        patterns |-> << <<"receipt">>, <<"order", "confirm">>, <<"purchase">> >>,
        category |-> "receipt", action |-> MOVE, domain |-> "Personal",
        subfolder |-> "Documents", confidence |-> 80],
       [name |-> "health_documents",
        patterns |-> << <<"medical">>, <<"prescription">>, <<"doctor">>, <<"health">> >>,
        category |-> "document", action |-> MOVE, domain |-> "Health",
        subfolder |-> "Documents", confidence |-> 90],
       [name |-> "pdf_documents",
        patterns |-> << <<".pdf", "$">> >>,
        category |-> "document", action |-> MOVE, domain |-> NoDomain,
        subfolder |-> "Documents", confidence |-> 50] >>

\* ClassificationRule.matches
RuleMatches(rule, name) ==
    \E i \in 1..Len(rule.patterns) : RegexSearch(rule.patterns[i], name)

\* the loop over RULES: a later rule replaces the best one only when its
\* confidence is strictly higher; 0 when no rule matches
\* one turn of the loop had it compared with >=
LaterRule(name, i, best) ==
    IF /\ RuleMatches(RULES[i], name)
       /\ RULES[i].confidence >= (IF best = 0 THEN 0 ELSE RULES[best].confidence)
    THEN i ELSE best

\* one turn of the loop: best is the index of best_match (0 for None)
BetterRule(name, i, best) ==
    IF /\ RuleMatches(RULES[i], name)
       /\ RULES[i].confidence > (IF best = 0 THEN 0 ELSE RULES[best].confidence)
    THEN i ELSE best

RECURSIVE BestFrom(_, _, _)
BestFrom(name, i, best) ==
    IF i > Len(RULES) THEN best
    ELSE BestFrom(name, i + 1, BetterRule(name, i, best))

BestRule(name) == BestFrom(name, 1, 0)

\* the correction loop shared by classify_file and classify_note: index in
\* `rel` of the first correction whose pattern matches or of which at least
\* two keywords occur in the name; 0 when none does
CorrectionApplies(c, name) == PatternHits(c, name) \/ KeywordHits(c, name) >= 2

FirstApplying(rel, name) ==
    IF \E i \in 1..Len(rel) : CorrectionApplies(rel[i], name)
    THEN CHOOSE i \in 1..Len(rel) :
            /\ CorrectionApplies(rel[i], name)
            /\ \A j \in 1..(i - 1) : ~CorrectionApplies(rel[j], name)
    ELSE 0

\* the plan classify_file builds from the correction c that applies
LearnedPlan(path, c) ==
    NewPlan(path, c.corrected_action,
            IF c.corrected_action = MOVE /\ c.corrected_domain # NoDomain
            THEN AreaPath(c.corrected_domain,
                          IF c.corrected_subfolder = NoSub
                          THEN DefaultSubfolder ELSE c.corrected_subfolder,
                          NameOf(path))
            ELSE NoPath,
            "document", c.corrected_domain, c.corrected_subfolder,
            IF PatternHits(c, NameOf(path)) THEN 95 ELSE 85,
            IF PatternHits(c, NameOf(path))
            THEN "Matched learned pattern from correction"
            ELSE "Matched learned keywords", "learned")

\* the plan classify_file builds from the best matching rule r
RulePlan(path, r) ==
    NewPlan(path, r.action,
            IF r.action = MOVE /\ r.domain # NoDomain
            THEN AreaPath(r.domain,
                          IF r.subfolder = NoSub THEN DefaultSubfolder ELSE r.subfolder,
                          NameOf(path))
            ELSE NoPath,
            r.category, r.domain, r.subfolder, r.confidence, "Matched rule", "rules")

\* classify_file with the corrections and the rules consulted for every name
classify_by_unignored(path, rel, hit, best) ==
    IF hit # 0
    THEN [plan |-> LearnedPlan(path, rel[hit]), used |-> rel[hit].id]
    ELSE IF best # 0
    THEN [plan |-> RulePlan(path, RULES[best]), used |-> NoId]
    ELSE [plan |-> NewPlan(path, SKIP, NoPath, "unknown", NoDomain, NoSub, 0,
                           "No matching rule found - needs AI classification",
                           "rules"),
          used |-> NoId]

\* classify_file once the relevant corrections rel, the index hit of the first
\* that applies (0 for none) and the index best of the best rule (0 for none)
\* are known
classify_by(path, rel, hit, best) ==
    IF ShouldIgnore(NameOf(path))
    THEN [plan |-> NewPlan(path, SKIP, NoPath, "unknown", NoDomain, NoSub, 100,
                           "File matches ignore pattern", "rules"),
          used |-> NoId]
    ELSE IF hit # 0
    THEN [plan |-> LearnedPlan(path, rel[hit]), used |-> rel[hit].id]
    ELSE IF best # 0
    THEN [plan |-> RulePlan(path, RULES[best]), used |-> NoId]
    ELSE [plan |-> NewPlan(path, SKIP, NoPath, "unknown", NoDomain, NoSub, 0,
                           "No matching rule found - needs AI classification",
                           "rules"),
          used |-> NoId]

classify_among(path, rel) ==
    classify_by(path, rel, FirstApplying(rel, NameOf(path)), BestRule(NameOf(path)))

\* classify_file: the plan it returns and the id of the correction whose
\* usage it incremented (NoId when none)
classify_file(path, cs) ==
    classify_among(path, get_relevant_corrections(cs, NameOf(path), RelevantLimit))

\* needs_ai_classification (file)
needs_ai_classification(plan) ==
    \/ plan.confidence < FileAiThreshold
    \/ plan.domain = NoDomain
    \/ plan.category = "unknown"

\* settings.protected_folders (three of the eleven) and is_protected_path
ProtectedFolders == {"20 - Journal", "60 - Archives", "00 - Inbox"}
is_protected_path(path) == path[1] \in ProtectedFolders

\* parse_frontmatter: the category and tags written in the note ("none" and
\* <<>> when the note has no frontmatter)
Frontmatter(path) ==
    IF path = Path("31 - Drafts", "", "scan.md")
    THEN [category |-> "Finance", tags |-> <<"trading">>]
    ELSE [category |-> "none", tags |-> <<>>]

\* CATEGORY_TO_AREA and TAG_KEYWORDS (the entries the notes above can hit)
CategoryArea(cat) ==
    CASE Lower(cat) \in {"finance", "trading", "investment"} -> "41 - Finance"
      [] Lower(cat) \in {"health", "medical", "fitness"} -> "44 - Health"
      [] OTHER -> NoDomain
TagArea(tag) ==
    CASE Lower(tag) \in {"trading", "stocks", "tax"} -> "41 - Finance"
      [] Lower(tag) \in {"health", "medical"} -> "44 - Health"
      [] OTHER -> NoDomain

\* FILENAME_RULES, in definition order (trading_research, health_notes)
FILENAME_RULES ==
    << [name |-> "trading_research",
        patterns |-> << <<"trading">>, <<"backtest">>, <<"portfolio">> >>,
        action |-> MOVE, target_area |-> "41 - Finance", confidence |-> 80],
       [name |-> "health_notes",
        patterns |-> << <<"health">>, <<"medical">> >>,
        action |-> MOVE, target_area |-> "44 - Health", confidence |-> 80] >>

\* the plan classify_note builds from the correction c that applies
NoteLearnedPlan(path, c) ==
    NewPlan(path, c.corrected_action,
            IF c.corrected_action = MOVE /\ c.corrected_domain # NoDomain
            THEN NoteAreaPath(c.corrected_domain, NameOf(path))
            ELSE IF c.corrected_action = ARCHIVE
            THEN NoteArchivePath(NameOf(path))
            ELSE NoPath,
            "unknown", c.corrected_domain, NoSub,
            IF PatternHits(c, NameOf(path)) THEN 95 ELSE 85,
            IF PatternHits(c, NameOf(path))
            THEN "Matched learned pattern" ELSE "Matched learned keywords",
            "learned")

\* a move plan of classify_note into an area
NoteMovePlan(path, area, conf, reasoning) ==
    NewPlan(path, MOVE, NoteAreaPath(area, NameOf(path)), "unknown", area, NoSub,
            conf, reasoning, "rules")

MinOf(S) == CHOOSE i \in S : \A j \in S : i <= j

\* classify_note once the frontmatter fm, the relevant corrections rel, the
\* index hit of the first that applies (0 for none), the indexes tagHits of
\* the tags and ruleHits of the filename rules that match are known
classify_note_by(path, fm, rel, hit, tagHits, ruleHits) ==
    IF is_protected_path(path)
    THEN [plan |-> NewPlan(path, SKIP, NoPath, "unknown", NoDomain, NoSub, 100,
                           "Note is in a protected folder", "rules"),
          used |-> NoId]
    ELSE IF ShouldIgnore(NameOf(path))
    THEN [plan |-> NewPlan(path, SKIP, NoPath, "unknown", NoDomain, NoSub, 100,
                           "File matches ignore pattern", "rules"),
          used |-> NoId]
    ELSE IF hit # 0
    THEN [plan |-> NoteLearnedPlan(path, rel[hit]), used |-> rel[hit].id]
    ELSE IF fm.category # "none" /\ CategoryArea(fm.category) # NoDomain
    THEN [plan |-> NoteMovePlan(path, CategoryArea(fm.category), 95,
                                "Frontmatter category"),
          used |-> NoId]
    ELSE IF tagHits # {}
    THEN [plan |-> NoteMovePlan(path, TagArea(fm.tags[MinOf(tagHits)]), 90,
                                "Frontmatter tag"),
          used |-> NoId]
    ELSE IF ruleHits # {}
    THEN [plan |-> NoteMovePlan(path, FILENAME_RULES[MinOf(ruleHits)].target_area,
                                FILENAME_RULES[MinOf(ruleHits)].confidence,
                                "Matched filename rule"),
          used |-> NoId]
    ELSE [plan |-> NewPlan(path, SKIP, NoPath, "unknown", NoDomain, NoSub, 0,
                           "No matching rule found - needs AI classification",
                           "rules"),
          used |-> NoId]

classify_note_among(path, fm, rel) ==
    classify_note_by(path, fm, rel, FirstApplying(rel, NameOf(path)),
                     {i \in 1..Len(fm.tags) : TagArea(fm.tags[i]) # NoDomain},
                     {i \in 1..Len(FILENAME_RULES) :
                          RuleMatches(FILENAME_RULES[i], NameOf(path))})

\* classify_note: the plan it returns and the id of the correction whose
\* usage it incremented (NoId when none)
classify_note(path, cs) ==
    classify_note_among(path, Frontmatter(path),
                        get_relevant_corrections(cs, NameOf(path), RelevantLimit))

\* needs_ai_classification (note)
note_needs_ai_classification(plan) == plan.confidence < NoteAiThreshold

-----------------------------------------------------------------------------
(* Plan store (database.py of both variants) *)

PlanIds(ps) == {ps[i].id : i \in 1..Len(ps)}
PlanIdx(ps, id) == CHOOSE i \in 1..Len(ps) : ps[i].id = id
\* get_plan, for an id that is stored
get_plan(ps, id) == ps[PlanIdx(ps, id)]

\* save_plan: INSERT OR REPLACE by id; a replaced row keeps its created_at
save_plan(ps, plan) ==
    IF plan.id \in PlanIds(ps)
    THEN [ps EXCEPT ![PlanIdx(ps, plan.id)] = plan]
    ELSE Append(ps, plan)

\* update_plan_status: UPDATE status, executed_at, error_message WHERE id
update_plan_status(ps, id, status, msg) ==
    [i \in 1..Len(ps) |->
        IF ps[i].id = id
        THEN [ps[i] EXCEPT !.status = status, !.error_message = msg]
        ELSE ps[i]]

\* update_plan (note variant): UPDATE action, destination_path, target_area,
\* confidence, reasoning, status WHERE id
update_plan(ps, plan) ==
    [i \in 1..Len(ps) |->
        IF ps[i].id = plan.id
        THEN [ps[i] EXCEPT !.action = plan.action,
                           !.destination_path = plan.destination_path,
                           !.domain = plan.domain,
                           !.confidence = plan.confidence,
                           !.reasoning = plan.reasoning,
                           !.status = plan.status]
        ELSE ps[i]]

Reverse(seq) == [i \in 1..Len(seq) |-> seq[Len(seq) + 1 - i]]

\* get_pending_plans: ORDER BY created_at ASC
get_pending_plans(ps) == SelectSeq(ps, LAMBDA p : p.status = PENDING)
\* get_plans_by_status: ORDER BY created_at DESC
get_plans_by_status(ps, st) == Reverse(SelectSeq(ps, LAMBDA p : p.status = st))

\* get_plan_by_source: the most recent plan of a source path, as a sequence
\* of at most one plan
get_plan_by_source(ps, src) ==
    LET rows == SelectSeq(ps, LAMBDA p : p.source_path = src)
    IN IF rows = <<>> THEN <<>> ELSE <<rows[Len(rows)]>>

-----------------------------------------------------------------------------
(* Executors *)

\* what the environment does to the filesystem calls of one execution: all
\* succeed, the directory creation raises, or the copy/move/trash call raises
Faults == {"none", "mkdir", "io"}

Outcome(ps, files, gone, ok, msg) ==
    [plans |-> ps, fs |-> files, lost |-> gone, ok |-> ok, msg |-> msg,
     raised |-> FALSE]
Raised(ps, files, gone) ==
    [plans |-> ps, fs |-> files, lost |-> gone, ok |-> FALSE, msg |-> NoMsg,
     raised |-> TRUE]
Failed(ps, files, gone, plan, msg) ==
    Outcome(update_plan_status(ps, plan.id, FAILED, msg), files, gone, FALSE, msg)

\* the counter loop: counter = 1; while dest.exists(): dest = stem<sep>counter
FirstFree(files, dest, sep) ==
    LET n == CHOOSE k \in 1..(Cardinality(files) + 1) :
                /\ Suffixed(dest, sep, k) \notin files
                /\ \A j \in 1..(k - 1) : Suffixed(dest, sep, j) \in files
    IN Suffixed(dest, sep, n)

\* shutil.move / Path.rename onto dest: an existing dest is replaced
MoveFile(ps, files, gone, plan, dest, msg) ==
    Outcome(update_plan_status(ps, plan.id, EXECUTED, NoMsg),
            (files \ {plan.source_path}) \cup {dest},
            IF dest \in files THEN gone \cup {dest} ELSE gone,
            TRUE, msg)

\* _execute_move
execute_move(ps, files, gone, plan, fault) ==
    IF plan.destination_path = NoPath
    THEN Failed(ps, files, gone, plan, "No destination specified")
    ELSE LET named == IF plan.suggested_name # NoName
                      THEN WithName(plan.destination_path, plan.suggested_name)
                      ELSE plan.destination_path
             dest == IF named \in files THEN FirstFree(files, named, "-") ELSE named
         IN IF fault # "none"
            THEN Failed(ps, files, gone, plan, "OSError")
            ELSE MoveFile(ps, files, gone, plan, dest, "Moved")

\* _execute_delete
execute_delete(ps, files, gone, plan, fault) ==
    IF fault # "none"
    THEN Failed(ps, files, gone, plan, "Failed to move to trash")
    ELSE Outcome(update_plan_status(ps, plan.id, EXECUTED, NoMsg),
                 files \ {plan.source_path}, gone, TRUE, "Deleted (moved to Trash)")

\* _execute_archive
execute_archive(ps, files, gone, plan, fault, t) ==
    LET plain == ArchivePath(NameOf(plan.source_path))
        dest == IF plain \in files THEN Suffixed(plain, "_ts", t) ELSE plain
    IN IF fault # "none"
       THEN Failed(ps, files, gone, plan, "OSError")
       ELSE MoveFile(ps, files, gone, plan, dest, "Archived")

\* _execute_rename
execute_rename(ps, files, gone, plan, fault) ==
    IF plan.suggested_name = NoName
    THEN Failed(ps, files, gone, plan, "No suggested name provided")
    ELSE LET named == WithName(plan.source_path, plan.suggested_name)
             dest == IF named \in files THEN FirstFree(files, named, "-") ELSE named
         IN IF fault # "none"
            THEN Failed(ps, files, gone, plan, "OSError")
            ELSE MoveFile(ps, files, gone, plan, dest, "Renamed")

\* _execute_plan_impl entered without its test that the source exists
execute_plan_impl_unchecked(ps, files, gone, plan, fault, t) ==
    CASE plan.action = MOVE -> execute_move(ps, files, gone, plan, fault)
      [] plan.action = DELETE -> execute_delete(ps, files, gone, plan, fault)
      [] plan.action = ARCHIVE -> execute_archive(ps, files, gone, plan, fault, t)
      [] plan.action = RENAME -> execute_rename(ps, files, gone, plan, fault)
      [] OTHER -> Outcome(ps, files, gone, FALSE, "Unknown action")

\* _execute_plan_impl (file variant): plan is the caller's in-memory copy
execute_plan_impl(ps, files, gone, plan, fault, t) ==
    IF plan.source_path \notin files
    THEN Failed(ps, files, gone, plan, "Source file no longer exists")
    ELSE CASE plan.action = MOVE -> execute_move(ps, files, gone, plan, fault)
           [] plan.action = DELETE -> execute_delete(ps, files, gone, plan, fault)
           [] plan.action = ARCHIVE -> execute_archive(ps, files, gone, plan, fault, t)
           [] plan.action = RENAME -> execute_rename(ps, files, gone, plan, fault)
           [] plan.action = SKIP ->
                Outcome(update_plan_status(ps, plan.id, EXECUTED, NoMsg),
                        files, gone, TRUE, "Skipped as requested")
           [] OTHER -> Outcome(ps, files, gone, FALSE, "Unknown action")

\* execute_plan (note variant): plan is the caller's in-memory copy
note_execute_plan(ps, files, gone, plan, fault) ==
    IF plan.source_path \notin files
    THEN Failed(ps, files, gone, plan, "Source note not found")
    ELSE IF plan.action = SKIP
    THEN Outcome(update_plan_status(ps, plan.id, EXECUTED, NoMsg),
                 files, gone, TRUE, "Skipped (no action needed)")
    ELSE IF plan.action \in {MOVE, ARCHIVE}
    THEN IF plan.destination_path = NoPath
         THEN Failed(ps, files, gone, plan, "No destination path specified")
         ELSE IF fault = "mkdir"
         THEN Raised(ps, files, gone)
         ELSE LET dest == IF plan.destination_path \in files
                          THEN FirstFree(files, plan.destination_path, "_")
                          ELSE plan.destination_path
              IN IF fault = "io"
                 THEN Failed(ps, files, gone, plan, "Move failed")
                 ELSE MoveFile(ps, files, gone, plan, dest, "Moved")
    ELSE Failed(ps, files, gone, plan, "Unknown action")

-----------------------------------------------------------------------------
(* Oracle classification (classifier.py of both variants) *)

\* the parsed JSON object of an Oracle answer, or a failure (network error,
\* unparsable text); `domain` is the raw domain / area string
Reply(ok, action, domain, name) ==
    [ok |-> ok, action |-> action, domain |-> domain, subfolder |-> NoSub,
     category |-> "document", confidence |-> 90, suggested_name |-> name]
OracleFailure == Reply(FALSE, SKIP, NoDomain, NoName)

\* the answers the model lets the Oracle give
FileReplies ==
    {Reply(TRUE, MOVE, "Finance", NoName), Reply(TRUE, ARCHIVE, NoDomain, NoName),
     Reply(TRUE, DELETE, NoDomain, NoName), Reply(TRUE, RENAME, NoDomain, CleanName),
     OracleFailure}
NoteReplies ==
    {Reply(TRUE, MOVE, "41 - Finance", NoName), Reply(TRUE, ARCHIVE, NoDomain, NoName),
     OracleFailure}
RepliesOf(v) == IF v = "file" THEN FileReplies ELSE NoteReplies

\* the skip plan both classifiers return from their except branch
FallbackPlan(path) ==
    NewPlan(path, SKIP, NoPath, "unknown", NoDomain, NoSub, 0,
            "AI classification failed", "ai")

\* FileCategory
FileCategory ==
    {"document", "image", "video", "audio", "installer", "archive", "code", "trading",
     "receipt", "screenshot", "download", "unknown"}

\* classify_with_ai (file); origId = NoId when there is no existing_plan.
\* LifeDomain(..), FileAction(..) and FileCategory(..) raise on a value outside
\* the enum, and the except branch answers with the skip plan
classify_with_ai(path, origId, origRev, reply) ==
    IF ~reply.ok \/ reply.action \notin FileAction
       \/ reply.domain \notin Domains \cup {NoDomain}
       \/ reply.category \notin FileCategory
    THEN FallbackPlan(path)
    ELSE LET dest == IF reply.domain # NoDomain
                     THEN AreaPath(reply.domain,
                                   IF reply.subfolder = NoSub
                                   THEN DefaultSubfolder ELSE reply.subfolder,
                                   NameOf(path))
                     ELSE NoPath
         IN [NewPlan(path, reply.action, dest, reply.category, reply.domain,
                     reply.subfolder, reply.confidence, "AI classification", "ai")
             EXCEPT !.original_plan_id = origId,
                    !.revision_count = IF origId # NoId THEN origRev + 1 ELSE 0,
                    !.suggested_name = reply.suggested_name]

\* the first area of AreaFolder.ALL whose lowered name contains the lowered
\* raw area, for the raw areas the model lets the Oracle give
PartialArea(raw) ==
    CASE raw \in {"Finance", "finance"} -> "41 - Finance"
      [] raw \in {"Health", "health"} -> "44 - Health"
      [] OTHER -> NoDomain

\* classify_with_ai (note); readable is FALSE when get_note_content returns
\* nothing
note_classify_with_ai(path, readable, origId, origRev, reply) ==
    IF ~readable
    THEN [FallbackPlan(path) EXCEPT !.reasoning = "Could not read note content"]
    ELSE IF ~reply.ok \/ reply.action \notin NoteAction
    THEN FallbackPlan(path)
    ELSE LET area == IF reply.action = ARCHIVE \/ reply.domain = NoDomain THEN NoDomain
                     ELSE IF reply.domain \in AreaFolders THEN reply.domain
                     ELSE PartialArea(reply.domain)
             dest == IF reply.action = ARCHIVE THEN NoteArchivePath(NameOf(path))
                     ELSE IF area # NoDomain THEN NoteAreaPath(area, NameOf(path))
                     ELSE NoPath
         IN [NewPlan(path, reply.action, dest, "unknown", area, NoSub,
                     reply.confidence, "AI classification", "ai")
             EXCEPT !.original_plan_id = origId,
                    !.revision_count = IF origId # NoId THEN origRev + 1 ELSE 0]

\* domain_aliases of classify_batch_with_ai and its default for unknown values
BatchDomain(raw) ==
    CASE raw \in Domains -> raw
      [] raw \in {"Travel"} -> "Personal"
      [] raw \in {"Education"} -> "Work"
      [] raw \in {"Legal", "Insurance"} -> "Finance"
      [] raw \in {"Medical"} -> "Health"
      [] raw \in {"Automotive", "Vehicle", "Car", "Home"} -> "Property"
      [] raw \in {"Kids", "Children"} -> "Family"
      [] OTHER -> "Personal"

\* the plan classify_batch_with_ai builds from one element of the answer
BatchPlan(path, reply) ==
    LET domain == IF reply.domain # NoDomain THEN BatchDomain(reply.domain) ELSE NoDomain
        dest == IF reply.domain # NoDomain
                THEN AreaPath(domain,
                              IF reply.subfolder = NoSub
                              THEN DefaultSubfolder ELSE reply.subfolder,
                              IF reply.suggested_name # NoName
                              THEN reply.suggested_name ELSE NameOf(path))
                ELSE NoPath
    IN [NewPlan(path, reply.action, dest, reply.category, domain, reply.subfolder,
                reply.confidence, "AI classification", "ai")
        EXCEPT !.suggested_name = reply.suggested_name]

\* the plan the note classify_batch_with_ai builds from one element
NoteBatchPlan(path, reply) ==
    LET area == IF reply.action # ARCHIVE /\ reply.domain \in AreaFolders
                THEN reply.domain ELSE NoDomain
        dest == IF reply.action = ARCHIVE THEN NoteArchivePath(NameOf(path))
                ELSE IF area # NoDomain THEN NoteAreaPath(area, NameOf(path))
                ELSE NoPath
    IN NewPlan(path, reply.action, dest, "unknown", area, NoSub, reply.confidence,
               "AI classification", "ai")

\* classify_batch_with_ai of either variant: answer is the parsed array of
\* [index, reply] elements, failed a call or parse that raised; an element
\* whose index is out of range is dropped, an element whose action (or, for
\* a file, category) is missing or not in the enum fails the whole batch
BadAction(v, reply) ==
    reply.action \notin (IF v = "file" THEN FileAction ELSE NoteAction)

BadElement(v, reply) ==
    \/ reply.action \notin (IF v = "file" THEN FileAction ELSE NoteAction)
    \/ v = "file" /\ reply.category \notin FileCategory

classify_batch_with_ai(v, paths, failed, answer) ==
    LET inRange == SelectSeq(answer, LAMBDA e : e.index >= 1 /\ e.index <= Len(paths))
    IN IF paths = <<>> THEN <<>>
       ELSE IF failed \/ \E i \in 1..Len(inRange) : BadElement(v, inRange[i].reply)
       THEN [i \in 1..Len(paths) |-> FallbackPlan(paths[i])]
       ELSE [i \in 1..Len(inRange) |->
                IF v = "file"
                THEN BatchPlan(paths[inRange[i].index], inRange[i].reply)
                ELSE NoteBatchPlan(paths[inRange[i].index], inRange[i].reply)]

\* the text an Oracle call returns: "error" when invoke_model raises, "prose"
\* for text that is no JSON, "object" for the JSON object of a single
\* classification (elems holds it), "array" for the JSON array of a batch.
\* An array holds its complete elements, flat objects whose strings hold no
\* "},", and may be cut: "no" for the whole array, "brace" for a text that
\* ends at the closing brace of its last complete element, "comma" for one
\* that ends with the comma behind it, "partial" for one that ends inside the
\* element that follows
Text(kind, elems, cut) == [kind |-> kind, elems |-> elems, cut |-> cut]
Element(index, reply) == [index |-> index, reply |-> reply]

\* classification = json.loads(response_content) of the single calls
SingleReply(text) ==
    IF text.kind = "object" THEN text.elems[1].reply ELSE OracleFailure

\* the number of "}," in the text of an array: one behind every complete
\* element, but none behind the last one of a text that ends at its brace
Separators(text) ==
    IF text.cut = "brace" THEN Len(text.elems) - 1 ELSE Len(text.elems)

Parsed(failed, answer) == [failed |-> failed, answer |-> answer]

\* the salvage of classify_batch_with_ai (file): the text up to the last "},"
\* closed with "]", when there is a "},"
salvage(text) ==
    IF text.kind = "array" /\ Separators(text) >= 1
    THEN Parsed(FALSE, SubSeq(text.elems, 1, Separators(text)))
    ELSE Parsed(TRUE, <<>>)

\* classifications = json.loads(content) of the batch calls; only the file
\* variant salvages a text that does not parse
loads_batch(v, text) ==
    IF text.kind = "array" /\ text.cut = "no" THEN Parsed(FALSE, text.elems)
    ELSE IF v = "file" /\ text.kind # "error" THEN salvage(text)
    ELSE Parsed(TRUE, <<>>)

\* classify_batch_with_ai applied to the text of the response
classify_batch_response(v, paths, text) ==
    classify_batch_with_ai(v, paths, loads_batch(v, text).failed,
                           loads_batch(v, text).answer)

\* classify_with_ai of either variant applied to the text of the response,
\* without an existing plan
classify_response(v, path, readable, text) ==
    IF v = "file"
    THEN classify_with_ai(path, NoId, 0, SingleReply(text))
    ELSE note_classify_with_ai(path, readable, NoId, 0, SingleReply(text))

\* a call of a classifier: "single" or "batch", the paths asked about, whether
\* the note of a single call can be read, the text of the response, whether
\* the classifier has returned
Call(call, paths, readable, text) ==
    [call |-> call, paths |-> paths, readable |-> readable, text |-> text,
     answered |-> FALSE]

\* the application is not looked at
NoService == [note |-> <<>>]

\* no Oracle call is being looked at
NoCall == Call("none", <<>>, TRUE, Text("error", <<>>, "no"))

\* extract_correction_pattern: the pattern and keywords it adds to a
\* correction for a file name; a failed call leaves both empty
Extraction(pat, kws) == [filename_pattern |-> pat, keywords |-> kws]
Extractions(name) ==
    {Extraction(NoPattern, <<>>),
     Extraction(<<Tokens(name)[1]>>, <<Tokens(name)[1], Tokens(name)[Len(Tokens(name))]>>)}

-----------------------------------------------------------------------------
(* Initial state *)

\* files that are already in the destination folders
PreExisting(v) ==
    IF v = "file"
    THEN {ArchivePath("scan.pdf"), AreaPath("Finance", "Documents", "scan.pdf")}
    ELSE {NoteArchivePath("scan.md"), NoteAreaPath("41 - Finance", "scan.md")}

Init ==
    /\ variant \in {"file", "note"}
    /\ plans = <<>>
    /\ corrections = <<>>
    /\ fs = SourcesOf(variant) \cup PreExisting(variant)
    /\ lost = {}
    /\ now = 0
    /\ orgPc = "idle"
    /\ orgDir = "none"
    /\ orgList = <<>>
    /\ orgFiles = {}
    /\ nextId = 1
    /\ oracle = NoCall
    /\ service = NoService

\* no command is running
Idle == orgPc = "idle"

orgVars == <<orgPc, orgDir, orgList, orgFiles>>

-----------------------------------------------------------------------------
(* Environment *)

\* a second passes; before the first timestamp is written into a file name or
\* a correction the origin of the clock is unobservable, so time starts there
Tick ==
    /\ now < MaxTime
    /\ \/ \E f \in fs \cup lost : f[4] = "_ts"
       \/ \E i \in 1..Len(corrections) : corrections[i].times_applied > 0
    /\ now' = now + 1
    /\ UNCHANGED <<variant, oracle, service, plans, corrections, fs, lost, orgVars, nextId>>

\* the items the model lets the user remove by hand
Removable(v) ==
    IF v = "file" THEN {Path("Downloads", "", "scan.pdf")}
    ELSE {Path("31 - Drafts", "", "scan.md")}

\* the user removes an item by hand
FileRemoved(f) ==
    /\ f \in Removable(variant) \cap fs
    /\ fs' = fs \ {f}
    /\ UNCHANGED <<variant, oracle, service, plans, corrections, lost, now, orgVars, nextId>>

-----------------------------------------------------------------------------
(* Watcher (file variant) *)

\* FileClassifierHandler._classify_and_save
ClassifyAndSave(f) ==
    /\ Idle /\ variant = "file"
    /\ f \in SourcesOf(variant) \cap fs
    /\ Len(plans) < MaxPlans
    /\ LET existing == get_plan_by_source(plans, f)
           r == classify_file(f, corrections)
       IN /\ ~(existing # <<>> /\ existing[1].status = PENDING)
          /\ corrections' = IF r.used # NoId
                             THEN increment_correction_usage(corrections, r.used, now)
                             ELSE corrections
          /\ plans' = save_plan(plans, [r.plan EXCEPT !.id = nextId])
          /\ nextId' = nextId + 1
    /\ UNCHANGED <<variant, oracle, service, fs, lost, now, orgVars>>

-----------------------------------------------------------------------------
(* Review *)

\* the domain and subfolder numbers the model lets the user type
ReviewDomains == {"Personal"}
ReviewSubfolders == {"Documents"}

\* one decision of _interactive_review / review (file) on the in-memory plan:
\* the plan table after it
file_decide(ps, plan, choice, dom, sub) ==
    CASE choice = "a" -> update_plan_status(ps, plan.id, APPROVED, NoMsg)
      [] choice = "d" ->
            update_plan_status(
                save_plan(ps, [plan EXCEPT !.action = DELETE, !.domain = NoDomain,
                                           !.subfolder = NoSub,
                                           !.destination_path = NoPath,
                                           !.suggested_name = NoName]),
                plan.id, APPROVED, NoMsg)
      [] choice = "s" -> update_plan_status(ps, plan.id, REJECTED, NoMsg)
      [] choice = "m" ->
            update_plan_status(
                save_plan(ps, [plan EXCEPT !.action = MOVE, !.domain = dom,
                                           !.subfolder = sub,
                                           !.destination_path =
                                               AreaPath(dom, sub,
                                                   IF plan.suggested_name # NoName
                                                   THEN plan.suggested_name
                                                   ELSE NameOf(plan.source_path))]),
                plan.id, APPROVED, NoMsg)
      [] OTHER -> ps

\* `review` (file): one decision on a plan the command loaded as pending
FileReview(id, choice, dom, sub) ==
    /\ Idle /\ variant = "file"
    /\ id \in PlanIds(plans)
    /\ get_plan(plans, id).status = PENDING
    /\ choice \in {"a", "d", "s", "m"}
    /\ plans' = file_decide(plans, get_plan(plans, id), choice, dom, sub)
    /\ UNCHANGED <<variant, oracle, service, corrections, fs, lost, now, orgVars, nextId>>

\* _edit_plan: actionChoice is the typed action number, areaChoice the typed
\* area ("none" for an invalid number)
edit_plan(plan, actionChoice, areaChoice) ==
    LET action == CASE actionChoice = "1" -> MOVE
                    [] actionChoice = "2" -> ARCHIVE
                    [] actionChoice = "3" -> SKIP
                    [] OTHER -> plan.action
        retarget == action = MOVE /\ areaChoice \in AreaFolders
    IN [plan EXCEPT !.action = action,
                    !.domain = IF retarget THEN areaChoice ELSE @,
                    !.destination_path =
                        IF retarget
                        THEN NoteAreaPath(areaChoice, NameOf(plan.source_path))
                        ELSE @,
                    !.status = APPROVED,
                    !.reasoning = "User edited"]

\* _review_plan_interactive: the typed choice is lower-cased before it is
\* compared, so "A" is handled as "a"
note_decide(ps, plan, typed, actionChoice, areaChoice) ==
    LET choice == IF typed = "A" THEN "a" ELSE typed
    IN CASE choice = "a" -> update_plan(ps, [plan EXCEPT !.status = APPROVED])
         [] choice = "r" -> update_plan(ps, [plan EXCEPT !.status = REJECTED])
         [] choice = "e" -> update_plan(ps, edit_plan(plan, actionChoice, areaChoice))
         [] OTHER -> ps

\* `review` and the review step of `organize` (note): one decision on a plan
\* the command holds as pending
NoteReview(id, typed, actionChoice, areaChoice) ==
    /\ Idle /\ variant = "note"
    /\ id \in PlanIds(plans)
    /\ get_plan(plans, id).status = PENDING
    /\ typed \in {"a", "r", "e", "A"}
    /\ plans' = note_decide(plans, get_plan(plans, id), typed, actionChoice, areaChoice)
    /\ UNCHANGED <<variant, oracle, service, corrections, fs, lost, now, orgVars, nextId>>

-----------------------------------------------------------------------------
(* Revision *)

\* the correction `revise` records for the old and the new plan
RevisionCorrection(id, plan, newPlan, ext) ==
    NewCorrection(id, NameOf(plan.source_path), newPlan.action, newPlan.domain,
                  newPlan.subfolder, ext.filename_pattern, ext.keywords)

\* the validations of `revise` (file): the plan exists, its status is pending
\* or revised, its file exists
file_revisable(ps, files, id) ==
    /\ id \in PlanIds(ps)
    /\ get_plan(ps, id).status \in {PENDING, REVISED}
    /\ get_plan(ps, id).source_path \in files

\* the validation of `revise` (note): the plan exists
note_revisable(ps, files, id) == id \in PlanIds(ps)

\* `revise` (file): id is the typed plan id, reply the Oracle's answer to the
\* reclassification, ext its answer to the pattern extraction. A call that
\* fails a validation prints an error, changes nothing and is no step.
FileRevise(id, reply, ext) ==
    /\ Idle /\ variant = "file"
    /\ Len(plans) < MaxPlans /\ Len(corrections) < MaxCorr
    /\ file_revisable(plans, fs, id)
    /\ LET plan == get_plan(plans, id)
           newPlan == [classify_with_ai(plan.source_path, plan.id,
                                        plan.revision_count, reply)
                       EXCEPT !.id = nextId]
       IN /\ ext \in Extractions(NameOf(plan.source_path))
          /\ plans' = save_plan(update_plan_status(plans, id, REVISED, NoMsg), newPlan)
          /\ corrections' =
                 Append(corrections,
                        RevisionCorrection(Len(corrections) + 1, plan, newPlan, ext))
    /\ nextId' = nextId + 1
    /\ UNCHANGED <<variant, oracle, service, fs, lost, now, orgVars>>

\* `revise` (note): learn is the answer to "Save this as a learned
\* correction?"
NoteRevise(id, reply, ext, learn) ==
    /\ Idle /\ variant = "note"
    /\ Len(plans) < MaxPlans /\ Len(corrections) < MaxCorr
    /\ note_revisable(plans, fs, id)
    /\ LET plan == get_plan(plans, id)
           newPlan == [note_classify_with_ai(plan.source_path,
                                             plan.source_path \in fs, plan.id,
                                             plan.revision_count, reply)
                       EXCEPT !.id = nextId]
       IN /\ ext \in Extractions(NameOf(plan.source_path))
          /\ plans' = update_plan_status(save_plan(plans, newPlan), id, REVISED, NoMsg)
          /\ corrections' =
                 IF learn
                 THEN Append(corrections,
                             RevisionCorrection(Len(corrections) + 1, plan, newPlan, ext))
                 ELSE corrections
    /\ nextId' = nextId + 1
    /\ UNCHANGED <<variant, oracle, service, fs, lost, now, orgVars>>

-----------------------------------------------------------------------------
(* Executor entry points *)

\* execute_plan(plan_id) (file)
execute_plan(ps, files, gone, id, fault, t) ==
    IF id \notin PlanIds(ps)
    THEN Outcome(ps, files, gone, FALSE, "Plan not found")
    ELSE IF get_plan(ps, id).status # PENDING
    THEN Outcome(ps, files, gone, FALSE, "Plan is not pending")
    ELSE execute_plan_impl(ps, files, gone, get_plan(ps, id), fault, t)

\* approve_plan(plan_id) (file)
approve_plan(ps, files, gone, id, fault, t) ==
    IF id \notin PlanIds(ps)
    THEN Outcome(ps, files, gone, FALSE, "Plan not found")
    ELSE IF get_plan(ps, id).status # PENDING
    THEN Outcome(ps, files, gone, FALSE, "Plan is not pending")
    ELSE execute_plan(update_plan_status(ps, id, APPROVED, NoMsg), files, gone,
                      id, fault, t)

\* reject_plan(plan_id) (file)
reject_plan(ps, files, gone, id) ==
    IF id \notin PlanIds(ps)
    THEN Outcome(ps, files, gone, FALSE, "Plan not found")
    ELSE IF get_plan(ps, id).status # PENDING
    THEN Outcome(ps, files, gone, FALSE, "Plan is not pending")
    ELSE Outcome(update_plan_status(ps, id, REJECTED, NoMsg), files, gone, TRUE,
                 "Plan rejected")

\* a call of an entry point that gets past its validations; a call they
\* refuse returns (False, message), changes nothing and is no step
Apply(id, out) ==
    /\ id \in PlanIds(plans)
    /\ out.ok \/ out.plans # plans
    /\ plans' = out.plans
    /\ fs' = out.fs
    /\ lost' = out.lost

ExecutePlan(id, fault) ==
    /\ Idle /\ variant = "file"
    /\ Apply(id, execute_plan(plans, fs, lost, id, fault, now))
    /\ UNCHANGED <<variant, oracle, service, corrections, now, orgVars, nextId>>

ApprovePlan(id, fault) ==
    /\ Idle /\ variant = "file"
    /\ Apply(id, approve_plan(plans, fs, lost, id, fault, now))
    /\ UNCHANGED <<variant, oracle, service, corrections, now, orgVars, nextId>>

RejectPlan(id) ==
    /\ Idle /\ variant = "file"
    /\ Apply(id, reject_plan(plans, fs, lost, id))
    /\ UNCHANGED <<variant, oracle, service, corrections, now, orgVars, nextId>>

\* the loop of execute_all_pending (file) / execute_all_approved (note) over
\* the loaded plans; faults[i] is what the environment does to the filesystem
\* calls of the i-th execution. An exception the executor does not catch ends
\* the loop and the call: `raised` is set and `results`, the results of the
\* executions that finished, is not returned.
RECURSIVE execute_each(_, _, _, _, _, _, _, _)
execute_each(v, ps, files, gone, queue, faults, t, results) ==
    IF queue = <<>>
    THEN [plans |-> ps, fs |-> files, lost |-> gone, results |-> results,
          raised |-> FALSE]
    ELSE LET plan == Head(queue)
             out == IF v = "file"
                    THEN execute_plan_impl(ps, files, gone, plan, Head(faults), t)
                    ELSE note_execute_plan(ps, files, gone, plan, Head(faults))
         IN IF out.raised
            THEN [plans |-> out.plans, fs |-> out.fs, lost |-> out.lost,
                  results |-> results, raised |-> TRUE]
            ELSE execute_each(v, out.plans, out.fs, out.lost, Tail(queue),
                              Tail(faults), t,
                              Append(results, [id |-> plan.id, ok |-> out.ok]))

\* execute_all_pending (file) / execute_all_approved (note)
execute_all(v, ps, files, gone, faults, t) ==
    execute_each(v, ps, files, gone, get_plans_by_status(ps, APPROVED), faults, t, <<>>)

ApprovedIds(ps) == {ps[i].id : i \in {j \in 1..Len(ps) : ps[j].status = APPROVED}}

ApplyAll(out) ==
    /\ plans' = out.plans
    /\ fs' = out.fs
    /\ lost' = out.lost

\* the `execute` command of either variant; with no approved plan it returns
\* an empty list and changes nothing
ExecuteAll(faults) ==
    /\ Idle
    /\ ApprovedIds(plans) # {}
    /\ Len(faults) = Cardinality(ApprovedIds(plans))
    /\ ApplyAll(execute_all(variant, plans, fs, lost, faults, now))
    /\ UNCHANGED <<variant, oracle, service, corrections, now, orgVars, nextId>>

-----------------------------------------------------------------------------
(* organize *)

\* the orders in which a directory listing may return a set of paths
Listings(S) ==
    {q \in [1..Cardinality(S) -> S] : \A i, j \in 1..Cardinality(S) : q[i] = q[j] => i = j}

\* the answers the model lets the Oracle give to a batch of paths: an element
\* for each path or for none, in the order of the paths (a call that fails
\* has no answer)
BatchAnswers(v, paths) ==
    LET oks == {r \in RepliesOf(v) : r.ok}
    IN {<<>>} \cup
       {a \in [1..Len(paths) -> [index : 1..Len(paths), reply : oks]] :
            \A i \in 1..Len(paths) : a[i].index = i}

\* the rule pass of `organize` (file) over the listed files: the plans the
\* rules settle, the paths left to the Oracle, the corrections afterwards
RECURSIVE file_rule_pass(_, _, _)

\* the pass puts the file f, classified as r, before the result of the rest
file_rule_add(f, r, rest) ==
    IF r.plan.action = SKIP \/ r.plan.category = "unknown"
       \/ r.plan.confidence < FileAiThreshold
    THEN [rest EXCEPT !.ai = <<f>> \o @]
    ELSE [rest EXCEPT !.rule = <<r.plan>> \o @]

file_rule_step(files, cs, t, r) ==
    file_rule_add(Head(files), r,
                  file_rule_pass(Tail(files),
                                 IF r.used # NoId
                                 THEN increment_correction_usage(cs, r.used, t)
                                 ELSE cs,
                                 t))

file_rule_pass(files, cs, t) ==
    IF files = <<>>
    THEN [rule |-> <<>>, ai |-> <<>>, cs |-> cs]
    ELSE file_rule_step(files, cs, t, classify_file(Head(files), cs))

\* the rule pass of `organize` (note)
RECURSIVE note_rule_pass(_, _, _)

note_rule_add(f, r, rest) ==
    IF note_needs_ai_classification(r.plan)
    THEN [rest EXCEPT !.ai = <<f>> \o @]
    ELSE [rest EXCEPT !.rule = <<r.plan>> \o @]

note_rule_step(notes, cs, t, r) ==
    note_rule_add(Head(notes), r,
                  note_rule_pass(Tail(notes),
                                 IF r.used # NoId
                                 THEN increment_correction_usage(cs, r.used, t)
                                 ELSE cs,
                                 t))

note_rule_pass(notes, cs, t) ==
    IF notes = <<>>
    THEN [rule |-> <<>>, ai |-> <<>>, cs |-> cs]
    ELSE note_rule_step(notes, cs, t, classify_note(Head(notes), cs))

\* ids for the plans of one scan, in the order they were created
Numbered(ps, first) == [i \in 1..Len(ps) |-> [ps[i] EXCEPT !.id = first + i - 1]]

RECURSIVE save_all(_, _)
save_all(ps, new) ==
    IF new = <<>> THEN ps ELSE save_all(save_plan(ps, Head(new)), Tail(new))

RECURSIVE set_status_all(_, _, _)
set_status_all(ps, list, status) ==
    IF list = <<>> THEN ps
    ELSE set_status_all(update_plan_status(ps, Head(list).id, status, NoMsg),
                        Tail(list), status)

\* the plans of one scan of either variant, numbered from `first`, after the
\* rule pass `pass`
scan_plans(v, pass, useAi, failed, answer, first) ==
    Numbered(pass.rule \o (IF useAi
                           THEN classify_batch_with_ai(v, pass.ai, failed, answer)
                           ELSE <<>>),
             first)

\* steps 1-3 of `organize` (file) up to the first review prompt, given the
\* rule pass and the plans all_plans of the scan
FileScanned(dir, listing, answer, pass, all_plans) ==
    /\ Len(plans) + Len(listing) <= MaxPlans
    /\ answer \in BatchAnswers("file", pass.ai)
    /\ plans' = set_status_all(save_all(plans, all_plans),
                               SelectSeq(all_plans, LAMBDA p : p.action = DELETE),
                               APPROVED)
    /\ corrections' = pass.cs
    /\ nextId' = nextId + Len(all_plans)
    /\ orgDir' = dir
    /\ orgFiles' = {listing[i] : i \in 1..Len(listing)}
    /\ orgList' = SelectSeq(all_plans, LAMBDA p : p.action # DELETE)
    /\ orgPc' = IF \A i \in 1..Len(all_plans) : all_plans[i].action = DELETE
                THEN "final" ELSE "review3"

FileScanPassed(dir, listing, failed, answer, pass) ==
    /\ failed => answer = <<>> /\ pass.ai # <<>>
    /\ FileScanned(dir, listing, answer, pass,
                scan_plans("file", pass, TRUE, failed, answer, nextId))

FileScan(dir, listing, failed, answer) ==
    /\ listing \in Listings({f \in fs : f[1] = dir /\ f \in FileSources})
    /\ IF listing = <<>>
       THEN /\ ~failed /\ answer = <<>>
            /\ orgPc' = "idle"
            /\ orgDir' = "none"
            /\ orgList' = <<>>
            /\ orgFiles' = {}
            /\ UNCHANGED <<plans, corrections, nextId>>
       ELSE FileScanPassed(dir, listing, failed, answer,
                           file_rule_pass(listing, corrections, now))
    /\ UNCHANGED <<variant, oracle, service, fs, lost, now>>

\* `organize` (file) is started on a directory
OrganizeStart(dir, listing, failed, answer) ==
    /\ Idle /\ variant = "file"
    /\ dir \in ScanDirsOf("file")
    /\ FileScan(dir, listing, failed, answer)

\* `organize` (file) is back at the top of its outer loop
OrganizeRescan(listing, failed, answer) ==
    /\ orgPc = "scan" /\ variant = "file"
    /\ FileScan(orgDir, listing, failed, answer)

\* one prompt of _interactive_review inside `organize`, on the plan object
\* the command holds
OrganizeReview(choice, dom, sub) ==
    /\ orgPc \in {"review3", "review5"} /\ orgList # <<>>
    /\ choice \in {"a", "d", "s", "m", "n", "q"}
    /\ LET rest == IF choice = "q" THEN <<>> ELSE Tail(orgList)
       IN /\ plans' = file_decide(plans, Head(orgList), choice, dom, sub)
          /\ orgList' = rest
          /\ orgPc' = IF rest # <<>> THEN orgPc
                      ELSE IF orgPc = "review3" THEN "final" ELSE "scan"
    /\ UNCHANGED <<variant, oracle, service, corrections, fs, lost, now, orgDir, orgFiles,
                   nextId>>

\* current_plans of step 4: the reloaded pending, approved and rejected plans
\* of the scanned files
current_plans(ps, files) ==
    SelectSeq(get_pending_plans(ps) \o get_plans_by_status(ps, APPROVED)
                  \o get_plans_by_status(ps, REJECTED),
              LAMBDA p : p.source_path \in files)

\* the plans option `choice` of step 5 resets to pending
reset_for(choice, current) ==
    CASE choice = "r" -> SelectSeq(current, LAMBDA p : p.status \in {PENDING, APPROVED})
      [] choice = "d" ->
            SelectSeq(current, LAMBDA p : p.action = DELETE /\ p.status = APPROVED)
      [] choice = "m" ->
            SelectSeq(current, LAMBDA p : p.action = MOVE /\ p.status = APPROVED)
      [] OTHER -> <<>>

\* the plan objects option `choice` of step 5 hands to _interactive_review,
\* with the statuses they were loaded with
shown_for(choice, current) ==
    CASE choice = "r" -> SelectSeq(current, LAMBDA p : p.status \in {PENDING, APPROVED})
      [] choice = "d" ->
            SelectSeq(current, LAMBDA p : p.action = DELETE /\ p.status = APPROVED)
      [] choice = "m" ->
            SelectSeq(current, LAMBDA p : p.action = MOVE /\ p.status = PENDING)
      [] OTHER -> <<>>

OrganizeChosen(choice, reset, shown) ==
    /\ plans' = set_status_all(plans, reset, PENDING)
    /\ orgList' = shown
    /\ orgPc' = IF choice = "q" THEN "idle"
                ELSE IF shown = <<>> THEN "scan" ELSE "review5"
    /\ orgDir' = IF choice = "q" THEN "none" ELSE orgDir
    /\ orgFiles' = IF choice = "q" THEN {} ELSE orgFiles

\* steps 4 and 5 of `organize` (file): the reload and one answer other than
\* `e` to the options prompt
OrganizeFinal(choice) ==
    /\ orgPc = "final"
    /\ choice \in {"r", "d", "m", "s", "q"}
    /\ choice # "q" => Len(plans) + Cardinality(orgFiles) <= MaxPlans
    /\ OrganizeChosen(choice, reset_for(choice, current_plans(plans, orgFiles)),
                      shown_for(choice, current_plans(plans, orgFiles)))
    /\ UNCHANGED <<variant, oracle, service, corrections, fs, lost, now, nextId>>

\* step 5 of `organize` (file), option `e` confirmed: the approved plans of
\* the store are executed and the command returns
OrganizeExecute(faults) ==
    /\ orgPc = "final"
    /\ \E i \in 1..Len(current_plans(plans, orgFiles)) :
          current_plans(plans, orgFiles)[i].status = APPROVED
    /\ Len(faults) = Cardinality(ApprovedIds(plans))
    /\ ApplyAll(execute_all("file", plans, fs, lost, faults, now))
    /\ orgPc' = "idle"
    /\ orgList' = <<>>
    /\ orgDir' = "none"
    /\ orgFiles' = {}
    /\ UNCHANGED <<variant, oracle, service, corrections, now, nextId>>

NoteScanned(pass, all_plans) ==
    /\ plans' = save_all(plans, all_plans)
    /\ corrections' = pass.cs
    /\ nextId' = nextId + Len(all_plans)

NoteScanPassed(useAi, failed, answer, pass) ==
    /\ answer \in BatchAnswers("note", pass.ai)
    /\ failed => answer = <<>> /\ pass.ai # <<>> /\ useAi
    /\ NoteScanned(pass, scan_plans("note", pass, useAi, failed, answer, nextId))

\* `organize` (note) up to its review prompt: the notes of the vault are
\* classified and the plans saved; the review prompts that follow decide as
\* NoteReview does, and the execution it offers is ExecuteAll
NoteOrganize(useAi, listing, failed, answer) ==
    /\ Idle /\ variant = "note"
    /\ listing \in Listings({f \in fs \cap NoteSources : ~is_protected_path(f)})
    /\ listing # <<>>
    /\ Len(plans) + Len(listing) <= MaxPlans
    /\ NoteScanPassed(useAi, failed, answer,
                      note_rule_pass(listing, corrections, now))
    /\ UNCHANGED <<variant, oracle, service, fs, lost, now, orgVars>>

-----------------------------------------------------------------------------
(* cleanup *)

\* the statuses the DELETE of cleanup_old_plans names
CleanedWithRevised == {EXECUTED, REJECTED, FAILED, REVISED}

CleanedStatuses == {EXECUTED, REJECTED, FAILED}

\* DELETE FROM .. WHERE status IN (..) AND created_at < cutoff; old is the set
\* of the rows whose created_at is before the cutoff
delete_old(ps, old) ==
    SelectSeq([i \in 1..Len(ps) |-> [row |-> ps[i], keep |-> ~(i \in old /\ ps[i].status \in CleanedStatuses)]],
              LAMBDA e : e.keep)

\* the rows left by delete_old
rows_left(ps, old) == [i \in 1..Len(delete_old(ps, old)) |-> delete_old(ps, old)[i].row]

-----------------------------------------------------------------------------
(* Specification *)

Next ==
    \/ Tick
    \/ \E f \in FileSources \cup NoteSources : FileRemoved(f)
    \/ \E f \in FileSources : ClassifyAndSave(f)
    \/ \E id \in 1..MaxPlans + 1, choice \in {"a", "d", "s", "m"}, dom \in ReviewDomains,
          sub \in ReviewSubfolders : FileReview(id, choice, dom, sub)
    \/ \E id \in 1..MaxPlans + 1, typed \in {"a", "r", "e", "A"},
          actionChoice \in {"1", "2", "3", ""}, areaChoice \in AreaFolders \cup {"none"} :
            NoteReview(id, typed, actionChoice, areaChoice)
    \/ \E id \in 1..MaxPlans + 1, reply \in FileReplies,
          ext \in UNION {Extractions(NameOf(f)) : f \in FileSources} :
            FileRevise(id, reply, ext)
    \/ \E id \in 1..MaxPlans + 1, reply \in NoteReplies,
          ext \in UNION {Extractions(NameOf(f)) : f \in NoteSources}, learn \in BOOLEAN :
            NoteRevise(id, reply, ext, learn)
    \/ \E id \in 1..MaxPlans + 1, fault \in Faults : ExecutePlan(id, fault)
    \/ \E id \in 1..MaxPlans + 1, fault \in Faults : ApprovePlan(id, fault)
    \/ \E id \in 1..MaxPlans + 1 : RejectPlan(id)
    \/ \E faults \in UNION {[1..n -> Faults] : n \in 0..MaxPlans} : ExecuteAll(faults)
    \/ \E dir \in ScanDirsOf("file"), listing \in UNION {Listings(S) : S \in SUBSET FileSources},
          failed \in BOOLEAN,
          answer \in UNION {BatchAnswers("file", q) :
                              q \in UNION {Listings(S) : S \in SUBSET FileSources}} :
            OrganizeStart(dir, listing, failed, answer)
    \/ \E listing \in UNION {Listings(S) : S \in SUBSET FileSources},
          failed \in BOOLEAN,
          answer \in UNION {BatchAnswers("file", q) :
                              q \in UNION {Listings(S) : S \in SUBSET FileSources}} :
            OrganizeRescan(listing, failed, answer)
    \/ \E choice \in {"a", "d", "s", "m", "n", "q"}, dom \in ReviewDomains,
          sub \in ReviewSubfolders : OrganizeReview(choice, dom, sub)
    \/ \E choice \in {"r", "d", "m", "s", "q"} : OrganizeFinal(choice)
    \/ \E faults \in UNION {[1..n -> Faults] : n \in 0..MaxPlans} : OrganizeExecute(faults)
    \/ \E useAi \in BOOLEAN, listing \in UNION {Listings(S) : S \in SUBSET NoteSources},
          failed \in BOOLEAN,
          answer \in UNION {BatchAnswers("note", q) :
                              q \in UNION {Listings(S) : S \in SUBSET NoteSources}} :
            NoteOrganize(useAi, listing, failed, answer)

Spec == Init /\ [][Next]_vars

-----------------------------------------------------------------------------
(* Properties *)

\* the status of the stored plan id before and after a step
StatusOf(ps, id) == get_plan(ps, id).status

\* the status changes the plan store's state machine allows
AllowedMoves ==
    {<<PENDING, APPROVED>>, <<PENDING, REJECTED>>, <<PENDING, REVISED>>,
     <<APPROVED, EXECUTED>>, <<APPROVED, FAILED>>}

\* C1: in every step, a stored plan whose status changes moves along
\* pending->approved, pending->rejected, pending->revised, approved->executed
\* or approved->failed; so a plan that is executed, failed, rejected or revised
\* never changes status again and an approved plan never returns to pending.
C1_StatusMoves ==
    [][\A id \in PlanIds(plans) :
          StatusOf(plans', id) # StatusOf(plans, id)
              => <<StatusOf(plans, id), StatusOf(plans', id)>> \in AllowedMoves]_vars

\* C2: in every step, a plan whose status becomes executed or failed was
\* approved before the step.
C2_ExecutedFromApproved ==
    [][\A id \in PlanIds(plans) :
          /\ StatusOf(plans', id) \in {EXECUTED, FAILED}
          /\ StatusOf(plans', id) # StatusOf(plans, id)
          => StatusOf(plans, id) = APPROVED]_vars

\* the stored plans of a source that are pending or approved
OpenPlans(ps, src) ==
    {i \in 1..Len(ps) : ps[i].source_path = src /\ ps[i].status \in {PENDING, APPROVED}}

\* C3: in every reachable state, no source path has two stored plans that are
\* pending or approved.
C3_OneOpenPlanPerSource ==
    \A src \in FileSources \cup NoteSources : Cardinality(OpenPlans(plans, src)) <= 1

\* the step is a `revise` of the plan id that passed its validations
Revises(id) ==
    \/ \E reply \in FileReplies, ext \in UNION {Extractions(NameOf(f)) : f \in FileSources} :
          FileRevise(id, reply, ext)
    \/ \E reply \in NoteReplies, ext \in UNION {Extractions(NameOf(f)) : f \in NoteSources},
          learn \in BOOLEAN : NoteRevise(id, reply, ext, learn)

\* the stored pending plans that continue the revision chain of `orig`
Successors(ps, orig) ==
    {i \in 1..Len(ps) :
        /\ ps[i].status = PENDING
        /\ ps[i].source_path = orig.source_path
        /\ ps[i].original_plan_id = orig.id
        /\ ps[i].revision_count = orig.revision_count + 1}

\* C4: after every `revise` step the original plan is stored as revised and
\* exactly one stored pending plan of the same source has original_plan_id
\* equal to the original's id and revision_count one above the original's.
C4_RevisionChain ==
    [][\A id \in PlanIds(plans) :
          Revises(id)
              => /\ StatusOf(plans', id) = REVISED
                 /\ Cardinality(Successors(plans', get_plan(plans, id))) = 1]_vars

\* the sequences of environment faults of one batch execution
FaultSeqs == UNION {[1..n -> Faults] : n \in 0..MaxPlans}

\* the step is a batch execution under the faults `faults`
ExecutesAll(faults) == ExecuteAll(faults) \/ OrganizeExecute(faults)

ResultIds(results) == {results[i].id : i \in 1..Len(results)}

\* C5: every batch execution returns, without an exception escaping it,
\* exactly one result for each plan that was approved when it started.
C5_OneResultPerApproved ==
    [][\A faults \in FaultSeqs :
          ExecutesAll(faults)
              => /\ ~execute_all(variant, plans, fs, lost, faults, now).raised
                 /\ Len(execute_all(variant, plans, fs, lost, faults, now).results)
                        = Cardinality(ApprovedIds(plans))
                 /\ ResultIds(execute_all(variant, plans, fs, lost, faults, now).results)
                        = ApprovedIds(plans)]_vars

\* one execution of a stored plan by the executor of the variant
execute_one(v, ps, files, gone, plan, fault, t) ==
    IF v = "file"
    THEN execute_plan_impl(ps, files, gone, plan, fault, t)
    ELSE note_execute_plan(ps, files, gone, plan, fault)

\* the outcome `out` of executing the plan id is a reported failure that is
\* stored as failed with an error message
ReportsFailure(out, id) ==
    /\ ~out.raised
    /\ ~out.ok
    /\ StatusOf(out.plans, id) = FAILED
    /\ get_plan(out.plans, id).error_message # NoMsg

\* the stored plans the executor entry points hand to the executor
Executable(ps) ==
    {i \in 1..Len(ps) : ps[i].status \in {PENDING, APPROVED}}

\* the batch results in `out` about plans whose source is not in `files`
\* are failures stored as failed with an error message
BatchReportsMissing(out, ps, files) ==
    \A k \in 1..Len(out.results) :
        get_plan(ps, out.results[k].id).source_path \notin files
            => /\ ~out.results[k].ok
               /\ StatusOf(out.plans, out.results[k].id) = FAILED
               /\ get_plan(out.plans, out.results[k].id).error_message # NoMsg

\* C6: in every reachable state, executing a stored plan whose source file
\* is not in the filesystem, whatever its action and whatever the filesystem
\* does, alone or in a batch, reports success = false and stores the plan as
\* failed with a non-empty error message.
C6_MissingSourceFails ==
    /\ \A i \in Executable(plans), fault \in Faults :
          plans[i].source_path \notin fs
              => ReportsFailure(execute_one(variant, plans, fs, lost, plans[i], fault, now),
                                plans[i].id)
    /\ \A faults \in FaultSeqs :
          Len(faults) = Cardinality(ApprovedIds(plans))
              => BatchReportsMissing(execute_all(variant, plans, fs, lost, faults, now),
                                     plans, fs)

\* an execution found the source of a plan missing and stored the failure
C6_Witness ==
    \E i \in 1..Len(plans) :
        /\ plans[i].status = FAILED
        /\ plans[i].source_path \notin fs
        /\ plans[i].error_message \in {"Source file no longer exists",
                                       "Source note not found"}

\* the file `f` that a step puts at a taken destination carries the first
\* free suffix -N among the files of the state before the step
FirstFreeDash(files, f) ==
    /\ f[4] = "-"
    /\ f[5] >= 1
    /\ <<f[1], f[2], f[3], "", 0>> \in files
    /\ \A n \in 1..(f[5] - 1) : <<f[1], f[2], f[3], "-", n>> \in files

\* C7: in every step, no file of the filesystem is overwritten or replaced,
\* and a file that appears under a suffixed name carries the first free
\* suffix -N (N = 1, 2, ...) of its destination.
C7_NoOverwrite ==
    [][/\ lost' = lost
       /\ \A f \in fs' \ fs : f[4] # "" => FirstFreeDash(fs, f)]_vars

\* C8: every approve_plan step on a pending plan whose source file exists
\* leaves the plan stored as executed, or as failed with an error message,
\* and returns success exactly when the plan is stored as executed.
C8_ApproveExecutes ==
    [][\A id \in PlanIds(plans), fault \in Faults :
          /\ ApprovePlan(id, fault)
          /\ StatusOf(plans, id) = PENDING
          /\ get_plan(plans, id).source_path \in fs
          => /\ StatusOf(plans', id) \in {EXECUTED, FAILED}
             /\ StatusOf(plans', id) = FAILED
                    => get_plan(plans', id).error_message # NoMsg
             /\ approve_plan(plans, fs, lost, id, fault, now).ok
                    <=> StatusOf(plans', id) = EXECUTED]_vars

\* C9: every `revise` step, that is every call of revise that changes a plan
\* row, stores a plan or stores a correction, is on a stored plan whose
\* status is pending.
C9_ReviseOnlyPending ==
    [][\A id \in 1..(MaxPlans + 1) :
          Revises(id) => id \in PlanIds(plans) /\ StatusOf(plans, id) = PENDING]_vars

-----------------------------------------------------------------------------
(* Classification against a filled correction store *)

\* the most corrections a store of this specification holds
MaxStored == 6

\* corrections that revisions of files named scan.pdf and 2024-scan.pdf leave
\* in the store: "one" names one keyword of scan.pdf and the file itself,
\* "keywords" names two keywords of scan.pdf, "pattern" and "archive" a pattern
\* that matches it
CorrectionKinds == {"one", "keywords", "pattern"}

StoredCorrection(id, kind) ==
    CASE kind = "one" ->
           NewCorrection(id, "scan.pdf", ARCHIVE, NoDomain, NoSub, NoPattern, <<"scan">>)
      [] kind = "keywords" ->
           NewCorrection(id, "2024-scan.pdf", MOVE, "Finance", "Documents", NoPattern,
                         <<"scan", ".pdf">>)
      [] kind = "archive" ->
           NewCorrection(id, "2024-scan.pdf", ARCHIVE, NoDomain, NoSub, <<"scan">>, <<>>)
      [] OTHER ->
           NewCorrection(id, "2024-scan.pdf", DELETE, NoDomain, NoSub, <<"scan">>, <<>>)

\* the stores: corrections in the order they were saved, ids in that order
Stores ==
    UNION {{[i \in 1..n |-> StoredCorrection(i, kinds[i])] : kinds \in [1..n -> CorrectionKinds]} :
              n \in 0..MaxStored}

InitClassify ==
    /\ variant = "file"
    /\ plans = <<>>
    /\ corrections \in Stores
    /\ fs = SourcesOf(variant) \cup PreExisting(variant)
    /\ lost = {}
    /\ now = 0
    /\ orgPc = "idle"
    /\ orgDir = "none"
    /\ orgList = <<>>
    /\ orgFiles = {}
    /\ nextId = 1
    /\ oracle = NoCall
    /\ service = NoService

NextClassify == \E f \in FileSources : ClassifyAndSave(f)

SpecClassify == InitClassify /\ [][NextClassify]_vars

\* the plan p is built from the correction c for the file name
BuiltFrom(p, c, name) ==
    /\ p.classification_source = "learned"
    /\ p.action = c.corrected_action
    /\ p.domain = c.corrected_domain
    /\ p.subfolder = c.corrected_subfolder
    /\ p.confidence = IF PatternHits(c, name) THEN 95 ELSE 85

\* C10: every classification of a file that is not ignored, made while the
\* store holds a correction whose pattern matches the file name or of which
\* two keywords occur in it, saves a plan built from a stored correction
\* that applies: source learned, action and target of the correction,
\* confidence 95 for a pattern match and 85 for a keyword match.
C10_LearnedWins ==
    [][\A f \in FileSources :
          /\ ClassifyAndSave(f)
          /\ ~ShouldIgnore(NameOf(f))
          /\ \E i \in 1..Len(corrections) : CorrectionApplies(corrections[i], NameOf(f))
          => \E i \in 1..Len(corrections) :
                /\ CorrectionApplies(corrections[i], NameOf(f))
                /\ BuiltFrom(plans'[Len(plans')], corrections[i], NameOf(f))]_vars

\* the correction c after one recorded use at time t
UsedOnce(c, t) == [c EXCEPT !.times_applied = @ + 1, !.last_applied = t]

\* C11: every classification that saves a learned plan increments
\* times_applied of exactly one stored correction, one the plan is built
\* from, by one and sets its last_applied to the time of the call, and leaves every other correction
\* as it was; a classification that saves a rules or skip plan leaves the
\* whole store as it was.
C11_OneUsageMarked ==
    [][\A f \in FileSources :
          ClassifyAndSave(f)
          => IF plans'[Len(plans')].classification_source = "learned"
             THEN \E i \in 1..Len(corrections) :
                     /\ BuiltFrom(plans'[Len(plans')], corrections[i], NameOf(f))
                     /\ corrections'[i] = UsedOnce(corrections[i], now)
                     /\ \A j \in 1..Len(corrections) :
                            j # i => corrections'[j] = corrections[j]
             ELSE corrections' = corrections]_vars

\* a learned plan was saved from a store of several corrections: one of them
\* is marked used and another is not
C11_Witness ==
    /\ plans # <<>>
    /\ plans[Len(plans)].classification_source = "learned"
    /\ \E i, j \in 1..Len(corrections) :
          /\ corrections[i].times_applied = 1 /\ corrections[i].last_applied = now
          /\ corrections[j].times_applied = 0

-----------------------------------------------------------------------------
(* classify_file and classify_note as functions of the path and the store *)

\* the most corrections a store of this specification holds, and the most
\* classifications of one run
MaxRuleStored == 2
MaxClassified == 2

\* the paths classified: names that hit no rule, one rule, rules of different
\* and of equal confidence, an ignore pattern; a note with frontmatter, a
\* hidden note, a note in a protected folder
RuleInputs(v) ==
    IF v = "file"
    THEN {Path("Desktop", "", n) :
             n \in {"scan.pdf", "2024_Tax_Return.pdf", "Tax_Return_2024.pdf",
                    "trading-invoice.pdf", "receipt-medical.pdf", "invoice.dmg",
                    "scan.tmp", "notes.txt", ".DS_Store"}}
    ELSE {Path("30 - Notes", "", n) :
             n \in {"scan.md", "trading-health.md", "health.md", ".draft.md"}}
         \cup {Path("31 - Drafts", "", "scan.md"), Path("20 - Journal", "", "scan.md")}

RuleKinds(v) ==
    IF v = "file" THEN {"one", "keywords", "pattern", "archive"} ELSE {"one", "archive"}

RuleStores(v) ==
    UNION {{[i \in 1..n |-> StoredCorrection(i, kinds[i])] : kinds \in [1..n -> RuleKinds(v)]} :
              n \in 0..MaxRuleStored}

InitRules ==
    /\ variant \in {"file", "note"}
    /\ plans = <<>>
    /\ corrections \in RuleStores(variant)
    /\ fs = RuleInputs(variant)
    /\ lost = {}
    /\ now = 0
    /\ orgPc = "idle"
    /\ orgDir = "none"
    /\ orgList = <<>>
    /\ orgFiles = {}
    /\ nextId = 1
    /\ oracle = NoCall
    /\ service = NoService

\* a caller classifies the path and keeps the plan: the usage of the
\* correction that classify_file used is incremented in the store
Classified(r) ==
    /\ corrections' = IF r.used # NoId
                       THEN increment_correction_usage(corrections, r.used, now)
                       ELSE corrections
    /\ plans' = save_plan(plans, [r.plan EXCEPT !.id = nextId])
    /\ nextId' = nextId + 1

ClassifyFile(f) ==
    /\ variant = "file"
    /\ f \in RuleInputs(variant)
    /\ Len(plans) < MaxClassified
    /\ Classified(classify_file(f, corrections))
    /\ UNCHANGED <<variant, oracle, service, fs, lost, now, orgVars>>

ClassifyNote(f) ==
    /\ variant = "note"
    /\ f \in RuleInputs(variant)
    /\ Len(plans) < MaxClassified
    /\ Classified(classify_note(f, corrections))
    /\ UNCHANGED <<variant, oracle, service, fs, lost, now, orgVars>>

NextRules ==
    \/ \E f \in RuleInputs("file") : ClassifyFile(f)
    \/ \E f \in RuleInputs("note") : ClassifyNote(f)

SpecRules == InitRules /\ [][NextRules]_vars

\* the step classifies the path f
Classifies(f) == ClassifyFile(f) \/ ClassifyNote(f)

\* some stored correction applies to the name
SomeApplies(cs, name) == \E i \in 1..Len(cs) : CorrectionApplies(cs[i], name)

\* C12: every classification of a name that matches an ignore pattern or is
\* hidden saves a plan with action skip, confidence 100 and source rules,
\* and leaves the correction store as it was, whatever corrections and
\* static rules match the name.
C12_IgnoredSkips ==
    [][\A f \in RuleInputs("file") \cup RuleInputs("note") :
          Classifies(f) /\ ShouldIgnore(NameOf(f))
          => /\ plans'[Len(plans')].action = SKIP
             /\ plans'[Len(plans')].confidence = 100
             /\ plans'[Len(plans')].classification_source = "rules"
             /\ plans'[Len(plans')].destination_path = NoPath
             /\ corrections' = corrections]_vars

\* an ignored name was classified although a stored correction applies to it
\* and a static rule matches it
C12_Witness ==
    /\ plans # <<>>
    /\ ShouldIgnore(NameOf(plans[Len(plans)].source_path))
    /\ SomeApplies(corrections, NameOf(plans[Len(plans)].source_path))
    /\ BestRule(NameOf(plans[Len(plans)].source_path)) # 0
    /\ plans[Len(plans)].action = SKIP

\* the static rules that match the name, and those among them that no
\* matching rule beats: none has a higher confidence, none of the same
\* confidence is defined earlier
MatchingRules(name) == {i \in 1..Len(RULES) : RuleMatches(RULES[i], name)}
WinningRules(name) ==
    {i \in MatchingRules(name) : \A j \in MatchingRules(name) :
        \/ RULES[i].confidence > RULES[j].confidence
        \/ RULES[i].confidence = RULES[j].confidence /\ i <= j}

NoteMatchingRules(name) ==
    {i \in 1..Len(FILENAME_RULES) : RuleMatches(FILENAME_RULES[i], name)}
NoteWinningRules(name) ==
    {i \in NoteMatchingRules(name) : \A j \in NoteMatchingRules(name) :
        \/ FILENAME_RULES[i].confidence > FILENAME_RULES[j].confidence
        \/ FILENAME_RULES[i].confidence = FILENAME_RULES[j].confidence /\ i <= j}

\* the plan p is the plan of no rule
IsUnmatched(p) ==
    p.action = SKIP /\ p.confidence = 0 /\ p.classification_source = "rules"

\* the plan p is the plan of the static rule r
IsPlanOfRule(p, r) ==
    /\ p.classification_source = "rules"
    /\ p.action = r.action
    /\ p.domain = r.domain
    /\ p.subfolder = r.subfolder
    /\ p.category = r.category
    /\ p.confidence = r.confidence

\* the plan p is the plan of the filename rule r of the note variant
IsPlanOfNoteRule(p, r) ==
    /\ p.classification_source = "rules"
    /\ p.action = r.action
    /\ p.domain = r.target_area
    /\ p.confidence = r.confidence

\* the note's frontmatter names no area
NoFrontmatterArea(f) ==
    /\ CategoryArea(Frontmatter(f).category) = NoDomain
    /\ \A i \in 1..Len(Frontmatter(f).tags) : TagArea(Frontmatter(f).tags[i]) = NoDomain

\* C13: every classification of a name that is not ignored, made while no
\* stored correction applies to it, saves the plan of the matching static
\* rule of highest confidence, the earliest defined among equals, and the
\* plan skip, confidence 0, source rules when no rule matches (for a note:
\* a note outside the protected folders whose frontmatter names no area).
C13_BestRuleWins ==
    [][/\ \A f \in RuleInputs("file") :
            /\ ClassifyFile(f)
            /\ ~ShouldIgnore(NameOf(f))
            /\ ~SomeApplies(corrections, NameOf(f))
            => IF MatchingRules(NameOf(f)) = {}
               THEN IsUnmatched(plans'[Len(plans')])
               ELSE \E i \in WinningRules(NameOf(f)) :
                       IsPlanOfRule(plans'[Len(plans')], RULES[i])
       /\ \A f \in RuleInputs("note") :
            /\ ClassifyNote(f)
            /\ ~is_protected_path(f) /\ ~ShouldIgnore(NameOf(f))
            /\ ~SomeApplies(corrections, NameOf(f))
            /\ NoFrontmatterArea(f)
            => IF NoteMatchingRules(NameOf(f)) = {}
               THEN IsUnmatched(plans'[Len(plans')])
               ELSE \E i \in NoteWinningRules(NameOf(f)) :
                       IsPlanOfNoteRule(plans'[Len(plans')], FILENAME_RULES[i])]_vars

\* a name that two rules of equal confidence and a rule of lower confidence
\* match was classified by the rules, and a name that no rule matches
C13_Witness ==
    /\ Len(plans) = 2
    /\ NameOf(plans[1].source_path) = "trading-invoice.pdf"
    /\ Cardinality({RULES[i].confidence : i \in MatchingRules("trading-invoice.pdf")}) = 2
    /\ Cardinality(MatchingRules("trading-invoice.pdf")) = 3
    /\ plans[1].classification_source = "rules"
    /\ plans[1].subfolder = "Research"
    /\ NameOf(plans[2].source_path) = "notes.txt"
    /\ plans[2].confidence = 0

\* C15: every classification of 2024_Tax_Return.pdf made while no stored
\* correction applies to it saves a plan with action move, domain Finance,
\* subfolder Documents and confidence 85.
C15_TaxReturn ==
    [][\A f \in RuleInputs("file") :
          /\ ClassifyFile(f)
          /\ NameOf(f) = "2024_Tax_Return.pdf"
          /\ ~SomeApplies(corrections, NameOf(f))
          => /\ plans'[Len(plans')].action = MOVE
             /\ plans'[Len(plans')].domain = "Finance"
             /\ plans'[Len(plans')].subfolder = "Documents"
             /\ plans'[Len(plans')].confidence = 85]_vars

\* the fields of a plan that the classification decides
Decision(p) == <<p.action, p.domain, p.subfolder, p.confidence>>

\* C16: in every reachable state, two plans saved by consecutive
\* classifications of the same path have the same action, domain, subfolder
\* and confidence.
C16_SameTwice ==
    \A k \in 1..(Len(plans) - 1) :
        plans[k].source_path = plans[k + 1].source_path
            => Decision(plans[k]) = Decision(plans[k + 1])

\* a path was classified twice in a row from a store in which two
\* corrections of different targets apply to it; the first call used one
C16_Witness ==
    /\ Len(plans) = 2
    /\ plans[1].source_path = plans[2].source_path
    /\ plans[1].classification_source = "learned"
    /\ \E i, j \in 1..Len(corrections) :
          /\ CorrectionApplies(corrections[i], NameOf(plans[1].source_path))
          /\ CorrectionApplies(corrections[j], NameOf(plans[1].source_path))
          /\ corrections[i].corrected_action # corrections[j].corrected_action
          /\ corrections[i].times_applied = 2
          /\ corrections[j].times_applied = 0


-----------------------------------------------------------------------------
(* classify_with_ai and classify_batch_with_ai as functions of the response *)

\* the most paths of a batch and the most complete elements of a response
MaxBatch == 2
MaxElems == 2

\* the `action` key is missing
NoAction == "none"

\* the JSON objects the Oracle may give: a domain of the taxonomy, one of the
\* alias table, an unknown one, none; an action that takes no destination
\* with a domain; an action outside the enum, a missing action, a category
\* outside the enum
OracleReplies(v) ==
    IF v = "file"
    THEN {Reply(TRUE, MOVE, "Finance", NoName), Reply(TRUE, MOVE, "Travel", NoName),
          Reply(TRUE, MOVE, "Space", NoName), Reply(TRUE, MOVE, NoDomain, NoName),
          Reply(TRUE, DELETE, "Finance", NoName), Reply(TRUE, SKIP, NoDomain, NoName),
          Reply(TRUE, "purge", "Finance", NoName),
          Reply(TRUE, NoAction, "Finance", NoName),
          [Reply(TRUE, MOVE, "Finance", NoName) EXCEPT !.category = "spreadsheet"]}
    ELSE {Reply(TRUE, MOVE, "41 - Finance", NoName), Reply(TRUE, MOVE, "Finance", NoName),
          Reply(TRUE, MOVE, "Travel", NoName), Reply(TRUE, ARCHIVE, NoDomain, NoName),
          Reply(TRUE, SKIP, "41 - Finance", NoName),
          Reply(TRUE, DELETE, "41 - Finance", NoName),
          Reply(TRUE, NoAction, "41 - Finance", NoName)}

\* the batches asked about
OraclePaths(v) ==
    IF v = "file"
    THEN <<Path("Desktop", "", "scan.pdf"), Path("Desktop", "", "notes.txt"),
           Path("Desktop", "", "invoice.dmg")>>
    ELSE <<Path("30 - Notes", "", "scan.md"), Path("30 - Notes", "", "health.md"),
           Path("30 - Notes", "", "trading-health.md")>>
Batches(v) == {SubSeq(OraclePaths(v), 1, n) : n \in 1..MaxBatch}

\* the arrays of complete elements; an index one past the batch is out of
\* range
Answers(v) ==
    UNION {[1..n -> {Element(i, r) : i \in 1..(MaxBatch + 1), r \in OracleReplies(v)}] :
              n \in 0..MaxElems}

\* the texts of a response to a batch call and to a single call
BatchTexts(v) ==
    {Text("error", <<>>, "no"), Text("prose", <<>>, "no")}
    \cup {Text("array", a, cut) : a \in Answers(v), cut \in {"no", "partial"}}
    \cup {Text("array", a, cut) : a \in Answers(v) \ {<<>>}, cut \in {"brace", "comma"}}
SingleTexts(v) ==
    {Text("error", <<>>, "no"), Text("prose", <<>>, "no")}
    \cup {Text("object", <<Element(1, r)>>, "no") : r \in OracleReplies(v)}

OracleCalls(v) ==
    {Call("batch", b, TRUE, t) : b \in Batches(v), t \in BatchTexts(v)}
    \cup {Call("single", <<OraclePaths(v)[1]>>, rd, t) :
             rd \in (IF v = "file" THEN {TRUE} ELSE BOOLEAN), t \in SingleTexts(v)}

InitOracle ==
    /\ variant \in {"file", "note"}
    /\ plans = <<>>
    /\ corrections = <<>>
    /\ fs = {}
    /\ lost = {}
    /\ now = 0
    /\ orgPc = "idle"
    /\ orgDir = "none"
    /\ orgList = <<>>
    /\ orgFiles = {}
    /\ nextId = 1
    /\ oracle \in OracleCalls(variant)
    /\ service = NoService

\* the classifier returns its plans to the caller
Answered(call, result) ==
    /\ ~oracle.answered
    /\ oracle.call = call
    /\ plans' = result
    /\ oracle' = [oracle EXCEPT !.answered = TRUE]
    /\ UNCHANGED <<variant, service, corrections, fs, lost, now, orgVars, nextId>>

ClassifyWithAi ==
    /\ variant = "file"
    /\ Answered("single", <<classify_response("file", oracle.paths[1], TRUE, oracle.text)>>)

NoteClassifyWithAi ==
    /\ variant = "note"
    /\ Answered("single", <<classify_response("note", oracle.paths[1], oracle.readable,
                                              oracle.text)>>)

ClassifyBatchWithAi ==
    /\ variant = "file"
    /\ Answered("batch", classify_batch_response("file", oracle.paths, oracle.text))

NoteClassifyBatchWithAi ==
    /\ variant = "note"
    /\ Answered("batch", classify_batch_response("note", oracle.paths, oracle.text))

NextOracle ==
    \/ ClassifyWithAi
    \/ NoteClassifyWithAi
    \/ ClassifyBatchWithAi
    \/ NoteClassifyBatchWithAi

SpecOracle == InitOracle /\ [][NextOracle]_vars

\* the plan has a target: a domain (file) or area (note) was resolved for it,
\* or it archives a note, whose target is the archive folder
HasTarget(v, p) == p.domain # NoDomain \/ (v = "note" /\ p.action = ARCHIVE)

\* C14: every plan a classifier returns has a destination_path if and only
\* if its action is move or archive and a domain or area was resolved for it.
C14_DestinationIffTarget ==
    oracle.answered
    => \A i \in 1..Len(plans) :
          plans[i].destination_path # NoPath
          <=> (plans[i].action \in {MOVE, ARCHIVE} /\ HasTarget(variant, plans[i]))


\* the object answers a requested item with a missing action, or an action or
\* category that is none of the enum's values
OutsideEnum(v, r) ==
    \/ v = "file" /\ (r.action \notin {MOVE, DELETE, ARCHIVE, SKIP, RENAME}
                      \/ r.category \notin FileCategory)
    \/ v = "note" /\ r.action \notin {MOVE, ARCHIVE, SKIP}

\* the Oracle call failed: a network error, a text that is no JSON, or a
\* whole JSON text with such an object for a requested item
OracleFailed(v, c) ==
    /\ c.readable
    /\ \/ c.text.kind \in {"error", "prose"}
       \/ /\ c.text.cut = "no"
          /\ \E i \in 1..Len(c.text.elems) :
                /\ c.text.elems[i].index \in 1..Len(c.paths)
                /\ OutsideEnum(v, c.text.elems[i].reply)

\* the plan answers the failure for the path
IsFailurePlan(p, path) ==
    /\ p.source_path = path
    /\ p.action = SKIP
    /\ p.confidence = 0
    /\ p.classification_source = "ai"
    /\ p.reasoning = "AI classification failed"
    /\ p.destination_path = NoPath

\* C17: when the Oracle call of classify_with_ai or classify_batch_with_ai
\* fails (network error, text that is no JSON, missing action, action or
\* category outside the enum), the classifier returns, for every requested
\* path in turn, a plan with action skip, confidence 0, source ai and the
\* reasoning that names the failure.
C17_FailureSkipsAll ==
    oracle.answered /\ OracleFailed(variant, oracle)
    => /\ Len(plans) = Len(oracle.paths)
       /\ \A i \in 1..Len(plans) : IsFailurePlan(plans[i], oracle.paths[i])

\* a batch of two files was answered by an array whose first object is
\* well-formed and whose second has a category outside the enum
C17_Witness ==
    /\ oracle.answered
    /\ oracle.call = "batch"
    /\ variant = "file"
    /\ Len(oracle.paths) = 2
    /\ oracle.text.kind = "array" /\ oracle.text.cut = "no"
    /\ Len(oracle.text.elems) = 2
    /\ oracle.text.elems[1] = Element(1, Reply(TRUE, MOVE, "Finance", NoName))
    /\ oracle.text.elems[2].index = 2
    /\ oracle.text.elems[2].reply.category = "spreadsheet"
    /\ Len(plans) = 2
    /\ IsFailurePlan(plans[1], oracle.paths[1])
    /\ IsFailurePlan(plans[2], oracle.paths[2])


\* the closed taxonomy of the variant
Taxonomy(v) ==
    IF v = "file" THEN {"Finance", "Family", "Work", "Health", "Property", "Personal"}
    ELSE {"41 - Finance", "42 - Family", "43 - Work", "44 - Health", "45 - Learning",
          "46 - Projects"}

\* the response is whole and well-formed, and answers the requested paths in
\* their order, one object each
AnswersEach(v, c) ==
    /\ c.readable
    /\ c.text.kind \in {"object", "array"} /\ c.text.cut = "no"
    /\ Len(c.text.elems) = Len(c.paths)
    /\ \A i \in 1..Len(c.paths) :
          c.text.elems[i].index = i /\ ~OutsideEnum(v, c.text.elems[i].reply)

\* the object names a domain or area that is not in the taxonomy
Foreign(v, r) == r.domain # NoDomain /\ r.domain \notin Taxonomy(v)

\* C18: when the Oracle's answer for a path names a domain or area outside
\* the taxonomy, in a single or a batch call of either variant, the plan for
\* that path keeps the Oracle's action and carries a domain of the taxonomy.
C18_ForeignDomainMapped ==
    oracle.answered /\ AnswersEach(variant, oracle)
    => /\ Len(plans) = Len(oracle.paths)
       /\ \A i \in 1..Len(plans) :
             Foreign(variant, oracle.text.elems[i].reply)
             => /\ plans[i].action = oracle.text.elems[i].reply.action
                /\ plans[i].domain \in Taxonomy(variant)

\* C19: classify_batch_with_ai returns one plan for every input path, the
\* i-th plan for the i-th path, whatever the response holds.
C19_OnePlanPerPath ==
    oracle.answered /\ oracle.call = "batch"
    => /\ Len(plans) = Len(oracle.paths)
       /\ \A i \in 1..Len(plans) : plans[i].source_path = oracle.paths[i]

\* the response to a batch is an array cut after k >= 1 complete, well-formed
\* objects for requested paths, fewer than the batch holds
CutAfter(v, c) ==
    /\ c.call = "batch"
    /\ c.text.kind = "array" /\ c.text.cut # "no"
    /\ Len(c.text.elems) >= 1 /\ Len(c.text.elems) < Len(c.paths)
    /\ \A i \in 1..Len(c.text.elems) :
          /\ c.text.elems[i].index \in 1..Len(c.paths)
          /\ ~OutsideEnum(v, c.text.elems[i].reply)

\* C20: from a response cut after k >= 1 complete elements,
\* classify_batch_with_ai returns the k plans of those elements, fewer than
\* the batch holds, and not the skip plans of a failed parse.
C20_TruncatedSalvaged ==
    oracle.answered /\ CutAfter(variant, oracle)
    => /\ Len(plans) = Len(oracle.text.elems)
       /\ \A i \in 1..Len(plans) :
             /\ plans[i].source_path = oracle.paths[oracle.text.elems[i].index]
             /\ plans[i].action = oracle.text.elems[i].reply.action
             /\ plans[i].reasoning # "AI classification failed"


-----------------------------------------------------------------------------
(* Review edits, cleanup and dry runs *)

\* the destination that belongs to the action and domain / area of the plan
Recomputed(v, p) ==
    IF v = "file"
    THEN IF p.action = MOVE
         THEN AreaPath(p.domain, p.subfolder,
                       IF p.suggested_name # NoName THEN p.suggested_name
                       ELSE NameOf(p.source_path))
         ELSE NoPath
    ELSE CASE p.action = MOVE /\ p.domain # NoDomain ->
                  NoteAreaPath(p.domain, NameOf(p.source_path))
           [] p.action = ARCHIVE -> NoteArchivePath(NameOf(p.source_path))
           [] OTHER -> NoPath

\* C21: after a review edit (choice m of the file review, choice e of the
\* note review) the stored plan is approved and its destination_path is the
\* path recomputed from its edited action and domain or area.
C21_EditRecomputes ==
    [][\A id \in 1..(MaxPlans + 1) :
          \/ \E dom \in ReviewDomains, sub \in ReviewSubfolders :
                FileReview(id, "m", dom, sub)
          \/ \E actionChoice \in {"1", "2", "3", ""},
                areaChoice \in AreaFolders \cup {"none"} :
                NoteReview(id, "e", actionChoice, areaChoice)
          => /\ StatusOf(plans', id) = APPROVED
             /\ get_plan(plans', id).destination_path
                    = Recomputed(variant, get_plan(plans', id))]_vars


\* the plans that follow the plan id in the list the note review loop walks
Remaining(ps, id) ==
    {get_pending_plans(ps)[j].id :
        j \in {k \in 1..Len(get_pending_plans(ps)) :
                  \E h \in 1..(k - 1) : get_pending_plans(ps)[h].id = id}}

\* C22: when the user types A at a plan of the note review loop, that plan
\* and every plan that follows it in the list are approved in the store.
C22_ApproveAllRemaining ==
    [][\A id \in 1..(MaxPlans + 1) :
          (\E actionChoice \in {"1", "2", "3", ""}, areaChoice \in AreaFolders \cup {"none"} :
              NoteReview(id, "A", actionChoice, areaChoice))
          => /\ StatusOf(plans', id) = APPROVED
             /\ \A r \in Remaining(plans, id) : StatusOf(plans', r) = APPROVED]_vars


\* the answers of the pattern extraction to any name
AnyExtraction ==
    UNION {Extractions(NameOf(path)) : path \in FileSources \cup NoteSources}

\* C27: when the Oracle call of revise fails, revise leaves the stored plans
\* and the stored corrections as they were: the original plan keeps its
\* status, no replacement plan is saved and no correction to skip is recorded.
C27_FailedReviseChangesNothing ==
    [][\A id \in 1..(MaxPlans + 1), ext \in AnyExtraction :
          \/ FileRevise(id, OracleFailure, ext)
          \/ \E learn \in BOOLEAN : NoteRevise(id, OracleFailure, ext, learn)
          => /\ plans' = plans
             /\ corrections' = corrections]_vars

\* the ids of the plans the running review is still to present
Presented(list) == {list[i].id : i \in 1..Len(list)}

\* C28: a plan of the scan that was approved when the user chooses `r`, `d`
\* or `m` at the final review is still approved after that choice or is
\* handed to the review that follows it; none is left pending unpresented.
C28_ApprovedKeptOrPresented ==
    [][\A choice \in {"r", "d", "m"} :
          OrganizeFinal(choice)
          => \A id \in ApprovedIds(plans) :
                get_plan(plans, id).source_path \in orgFiles
                => \/ get_plan(plans', id).status = APPROVED
                   \/ id \in Presented(orgList')]_vars

-----------------------------------------------------------------------------
(* The plan table under cleanup_old_plans *)

\* time is counted in ticks, TicksPerDay to a day and MonthLen days to a
\* month; tick 0 is midnight of the first day of a month
TicksPerDay == 2
MonthLen == 3
MaxTick == 7
\* the largest `days` of a cleanup, the most rows of the table and the last
\* id given to a row
MaxDays == 3
MaxRows == 2
MaxRowId == 3

DayOf(t) == t \div TicksPerDay
DayOfMonth(t) == (DayOf(t) % MonthLen) + 1

\* a stored plan with its created_at
Row(id, orig, t) ==
    [created_at |-> t]
    @@ [NewPlan(Path("Desktop", "", "scan.pdf"), SKIP, NoPath, "unknown", NoDomain,
                NoSub, 0, "No matching rules", "rules")
        EXCEPT !.id = id, !.original_plan_id = orig]

\* the result of a call of cleanup_old_plans: whether it raised, the table
\* afterwards, the returned rowcount
Cleaned(raised, ps, count) == [raised |-> raised, plans |-> ps, count |-> count]

\* the rows created before the cutoff
OldRows(ps, cutoff) == {i \in 1..Len(ps) : ps[i].created_at < cutoff}

\* the DELETE with the cutoff
cleanup_before(ps, cutoff) ==
    Cleaned(FALSE, rows_left(ps, OldRows(ps, cutoff)),
            Len(ps) - Len(rows_left(ps, OldRows(ps, cutoff))))

\* cleanup_old_plans at time t.  file: the cutoff is today's midnight with
\* its day of month replaced by day - days, and datetime.replace raises
\* ValueError for a day below 1; note: the cutoff is now - timedelta(days)
cleanup_old_plans(v, ps, t, days) ==
    IF v = "file"
    THEN IF DayOfMonth(t) - days < 1
         THEN Cleaned(TRUE, ps, 0)
         ELSE cleanup_before(ps, (DayOf(t) - days) * TicksPerDay)
    ELSE cleanup_before(ps, t - days * TicksPerDay)

InitCleanup ==
    /\ variant \in {"file", "note"}
    /\ plans = <<>>
    /\ corrections = <<>>
    /\ fs = {}
    /\ lost = {}
    /\ now = 0
    /\ orgPc = "idle"
    /\ orgDir = "none"
    /\ orgList = <<>>
    /\ orgFiles = {}
    /\ nextId = 1
    /\ oracle = NoCall
    /\ service = NoService

rowVars == <<variant, oracle, service, corrections, fs, lost, orgVars>>

\* a classification saves a new pending plan
RowSaved ==
    /\ Len(plans) < MaxRows /\ nextId <= MaxRowId
    /\ plans' = save_plan(plans, Row(nextId, NoId, now))
    /\ nextId' = nextId + 1
    /\ UNCHANGED <<rowVars, now>>

\* a review approves or rejects a pending plan
RowReviewed(id, status) ==
    /\ id \in PlanIds(plans)
    /\ get_plan(plans, id).status = PENDING
    /\ status \in {APPROVED, REJECTED}
    /\ plans' = update_plan_status(plans, id, status, NoMsg)
    /\ UNCHANGED <<rowVars, now, nextId>>

\* an execution ends an approved plan as executed or failed
RowExecuted(id, status) ==
    /\ id \in PlanIds(plans)
    /\ get_plan(plans, id).status = APPROVED
    /\ status \in {EXECUTED, FAILED}
    /\ plans' = update_plan_status(plans, id, status, NoMsg)
    /\ UNCHANGED <<rowVars, now, nextId>>

\* a revision marks a pending plan revised and saves its successor
RowRevised(id) ==
    /\ id \in PlanIds(plans)
    /\ get_plan(plans, id).status = PENDING
    /\ Len(plans) < MaxRows /\ nextId <= MaxRowId
    /\ plans' = save_plan(update_plan_status(plans, id, REVISED, NoMsg),
                          Row(nextId, id, now))
    /\ nextId' = nextId + 1
    /\ UNCHANGED <<rowVars, now>>

\* half a day passes
Pass ==
    /\ now < MaxTick
    /\ now' = now + 1
    /\ UNCHANGED <<rowVars, plans, nextId>>

\* `cleanup --days`: a call that raises or deletes nothing leaves the state
\* as it is
Cleanup(days) ==
    /\ ~cleanup_old_plans(variant, plans, now, days).raised
    /\ cleanup_old_plans(variant, plans, now, days).plans # plans
    /\ plans' = cleanup_old_plans(variant, plans, now, days).plans
    /\ UNCHANGED <<rowVars, now, nextId>>

NextCleanup ==
    \/ RowSaved
    \/ \E id \in 1..MaxRowId, status \in {APPROVED, REJECTED} : RowReviewed(id, status)
    \/ \E id \in 1..MaxRowId, status \in {EXECUTED, FAILED} : RowExecuted(id, status)
    \/ \E id \in 1..MaxRowId : RowRevised(id)
    \/ Pass
    \/ \E days \in 0..MaxDays : Cleanup(days)

SpecCleanup == InitCleanup /\ [][NextCleanup]_vars

\* the plan is executed, rejected or failed and was created more than `days`
\* days before t
IsOldAt(p, t, days) ==
    /\ p.status \in {EXECUTED, REJECTED, FAILED}
    /\ t - p.created_at > days * TicksPerDay

\* C23: at every time and for every days >= 0, cleanup_old_plans(days) does
\* not raise, leaves exactly the plans that are not executed, rejected or
\* failed and older than `days` days, and returns the number it deleted.
C23_CleanupExact ==
    \A days \in 0..MaxDays :
       /\ ~cleanup_old_plans(variant, plans, now, days).raised
       /\ cleanup_old_plans(variant, plans, now, days).plans
              = SelectSeq(plans, LAMBDA p : ~IsOldAt(p, now, days))
       /\ cleanup_old_plans(variant, plans, now, days).count
              = Cardinality({i \in 1..Len(plans) : IsOldAt(plans[i], now, days)})


\* C24: no step removes a plan whose status is pending, approved or revised
\* from the store; a revised plan stays stored whatever happens to its
\* successor and whatever cleanup runs.
C24_OpenPlansKept ==
    [][\A i \in 1..Len(plans) :
          plans[i].status \in {PENDING, APPROVED, REVISED}
          => plans[i].id \in PlanIds(plans')]_vars

\* a revised plan is stored although a cleanup has deleted its successor
C24_Witness ==
    \E i \in 1..Len(plans) :
       /\ plans[i].status = REVISED
       /\ nextId > plans[i].id + 1
       /\ \A j \in 1..Len(plans) : plans[j].original_plan_id # plans[i].id


-----------------------------------------------------------------------------
(* The daily note under replace_daily_note_section *)

\* the most tokens of the note and of the content of this specification
MaxNote == 3
MaxContent == 2

\* a text is read as its sequence of tokens: the line of the heading that is
\* replaced, the line of another heading, a word, a newline
HeadingLine == "## Tasks"
OtherHeading == "## Other"
Word == "x"
NL == "\n"
NoteTokens == {HeadingLine, OtherHeading, Word, NL}

\* the number of newlines of the text from position i on
NlRun(c, i) ==
    CHOOSE r \in 0..Len(c) :
       /\ \A k \in i..(i + r - 1) : k <= Len(c) /\ c[k] = NL
       /\ (i + r > Len(c) \/ c[i + r] # NL)

\* re.search(^heading\s*$, MULTILINE) matches at position i: the heading
\* starts a line and only newlines follow up to the end of a line
HeadingAt(c, i) ==
    /\ c[i] = HeadingLine
    /\ (i = 1 \/ c[i - 1] = NL)
    /\ (i + NlRun(c, i + 1) = Len(c) \/ NlRun(c, i + 1) >= 1)

\* re.search(^##\s, MULTILINE) in content[start:] matches at offset k
NextHeadingAt(c, start, k) ==
    /\ c[k + 1] \in {HeadingLine, OtherHeading}
    /\ (k = start \/ c[k] = NL)

NoBounds == <<-1, -1>>

\* start_pos: behind the first matching heading line and the newlines that
\* the match and the step over one newline consume
SectionStart(c) ==
    (CHOOSE i \in 1..Len(c) : HeadingAt(c, i) /\ \A h \in 1..(i - 1) : ~HeadingAt(c, h))
    + NlRun(c, 1 + CHOOSE i \in 1..Len(c) :
                       HeadingAt(c, i) /\ \A h \in 1..(i - 1) : ~HeadingAt(c, h))

\* end_pos: the offset of the next heading, or the end of the text
SectionEnd(c, start) ==
    IF \E k \in start..(Len(c) - 1) : NextHeadingAt(c, start, k)
    THEN CHOOSE k \in start..(Len(c) - 1) :
            NextHeadingAt(c, start, k) /\ \A h \in start..(k - 1) : ~NextHeadingAt(c, start, h)
    ELSE Len(c)

\* _find_section_bounds
find_section_bounds(c) ==
    IF \E i \in 1..Len(c) : HeadingAt(c, i)
    THEN <<SectionStart(c), SectionEnd(c, SectionStart(c))>>
    ELSE NoBounds

\* str.rstrip and str.lstrip
RECURSIVE rstrip(_)
rstrip(c) == IF c # <<>> /\ c[Len(c)] = NL THEN rstrip(SubSeq(c, 1, Len(c) - 1)) ELSE c
RECURSIVE lstrip(_)
lstrip(c) == IF c # <<>> /\ c[1] = NL THEN lstrip(Tail(c)) ELSE c

\* the new_content of replace_daily_note_section for the bounds b
replaced_at(c, content, b) ==
    IF b = NoBounds
    THEN rstrip(c) \o <<NL, NL, HeadingLine, NL>> \o content \o <<NL>>
    ELSE SubSeq(c, 1, b[1]) \o content \o <<NL, NL>> \o lstrip(SubSeq(c, b[2] + 1, Len(c)))

\* replace_daily_note_section: the daily note it commits
replace_daily_note_section(c, content) == replaced_at(c, content, find_section_bounds(c))

TextsUpTo(n) == UNION {[1..k -> NoteTokens] : k \in 0..n}

\* the daily note, the content of the calls, the number of calls made and
\* the note the first call committed
DailyNote(note, content, calls, first) ==
    [note |-> note, content |-> content, calls |-> calls, first |-> first]

InitNote ==
    /\ variant = "file"
    /\ plans = <<>>
    /\ corrections = <<>>
    /\ fs = {}
    /\ lost = {}
    /\ now = 0
    /\ orgPc = "idle"
    /\ orgDir = "none"
    /\ orgList = <<>>
    /\ orgFiles = {}
    /\ nextId = 1
    /\ oracle = NoCall
    /\ service \in {DailyNote(n, c, 0, <<>>) : n \in TextsUpTo(MaxNote), c \in TextsUpTo(MaxContent)}

\* a call with the heading and the content commits the new note
ReplaceDailyNoteSection ==
    /\ service.calls < 2
    /\ service' = DailyNote(replace_daily_note_section(service.note, service.content),
                            service.content, service.calls + 1,
                            IF service.calls = 0
                            THEN replace_daily_note_section(service.note, service.content)
                            ELSE service.first)
    /\ UNCHANGED <<variant, oracle, plans, corrections, fs, lost, now, orgVars, nextId>>

NextNote == ReplaceDailyNoteSection

SpecNote == InitNote /\ [][NextNote]_vars

\* C25: after two calls of replace_daily_note_section in a row with the same
\* heading and content the daily note is the note the first call committed.
C25_ReplaceIdempotent ==
    service.calls = 2 => service.note = service.first


-----------------------------------------------------------------------------
(* handle_alexa_request *)

\* the speech is read as the sequence of its parts
Response(speech, should_end, card) ==
    [raised |-> FALSE, speech |-> speech, shouldEndSession |-> should_end, card |-> card]

\* the handler raised and the skill gets no response
Raises == [raised |-> TRUE, speech |-> <<>>, shouldEndSession |-> FALSE, card |-> NoName]
NoResponse == [raised |-> FALSE, speech |-> <<"none">>, shouldEndSession |-> FALSE,
               card |-> NoName]

\* the default of should_end in _build_response
KeepOpenDefault == FALSE

DefaultShouldEnd == TRUE

\* the confirmation of a created task
Confirmation(parsed) ==
    <<"Added", parsed.title>>
    \o (IF parsed.project # NoName THEN <<"to", parsed.project>> ELSE <<>>)
    \o (IF parsed.due_date # NoName THEN <<"due", parsed.due_date>> ELSE <<>>)

\* _handle_capture_task: text is the value of the taskText slot, parsed the
\* answer of parse_task_tags, created and subject the result of
\* create_omnifocus_task; TaskCreateRequest refuses an empty title
handle_capture_task(text, parsed, created, subject) ==
    IF text = ""
    THEN Response(<<"I didn't catch the task">>, FALSE, NoName)
    ELSE IF parsed.title = "" THEN Raises
    ELSE IF created
    THEN Response(Confirmation(parsed), DefaultShouldEnd,
                  IF subject # NoName THEN subject ELSE parsed.title)
    ELSE Response(<<"Sorry, I couldn't add that task">>, DefaultShouldEnd, NoName)

\* handle_alexa_request
handle_alexa_request(r) ==
    CASE r.type = "LaunchRequest" -> Response(<<"Welcome to Task Capture">>, FALSE, NoName)
      [] r.type = "IntentRequest" /\ r.intent = "CaptureTaskIntent" ->
            handle_capture_task(r.text, r.parsed, r.created, r.subject)
      [] r.type = "IntentRequest" /\ r.intent = "AMAZON.HelpIntent" ->
            Response(<<"You can say things like">>, FALSE, NoName)
      [] r.type = "IntentRequest"
         /\ r.intent \in {"AMAZON.CancelIntent", "AMAZON.StopIntent"} ->
            Response(<<"Goodbye!">>, DefaultShouldEnd, NoName)
      [] r.type = "IntentRequest" /\ r.intent = "AMAZON.FallbackIntent" ->
            Response(<<"I didn't understand that">>, FALSE, NoName)
      [] r.type = "SessionEndedRequest" -> Response(<<"">>, DefaultShouldEnd, NoName)
      [] OTHER -> Response(<<"I'm not sure how to help with that">>, FALSE, NoName)

\* the requests of this specification, with the answers of the task parser
\* and of OmniFocus to them
Parses ==
    [title : {"Buy milk", "buy milk tomorrow", ""}, project : {NoName, "Groceries"},
     due_date : {NoName, "2026-01-02"}]
AlexaRequests ==
    [type : {"LaunchRequest", "IntentRequest", "SessionEndedRequest", "CanFulfillIntentRequest"},
     intent : {"CaptureTaskIntent", "AMAZON.HelpIntent", "AMAZON.CancelIntent",
               "AMAZON.StopIntent", "AMAZON.FallbackIntent", "AMAZON.NavigateHomeIntent"},
     text : {"", "buy milk tomorrow"}, parsed : Parses, created : BOOLEAN,
     subject : {NoName, "Buy milk ::Groceries"}]

InitAlexa ==
    /\ variant = "file"
    /\ plans = <<>>
    /\ corrections = <<>>
    /\ fs = {}
    /\ lost = {}
    /\ now = 0
    /\ orgPc = "idle"
    /\ orgDir = "none"
    /\ orgList = <<>>
    /\ orgFiles = {}
    /\ nextId = 1
    /\ oracle = NoCall
    /\ service \in {[request |-> r, response |-> NoResponse] : r \in AlexaRequests}

\* the webhook answers the request
AlexaWebhook ==
    /\ service.response = NoResponse
    /\ service' = [service EXCEPT !.response = handle_alexa_request(service.request)]
    /\ UNCHANGED <<variant, oracle, plans, corrections, fs, lost, now, orgVars, nextId>>

NextAlexa == AlexaWebhook

SpecAlexa == InitAlexa /\ [][NextAlexa]_vars

IsCapture(r) == r.type = "IntentRequest" /\ r.intent = "CaptureTaskIntent"
InSpeech(word, speech) == \E k \in 1..Len(speech) : speech[k] = word

-----------------------------------------------------------------------------
(* The executor with settings.dry_run *)

\* the result of an execution that only logs what it would do
Logged(ps, files, gone, plan, msg) ==
    Outcome(update_plan_status(ps, plan.id, EXECUTED, NoMsg), files, gone, TRUE, msg)

\* _execute_move with dry_run: the destination directory is created before
\* dry_run is looked at
dry_execute_move(ps, files, gone, plan, fault) ==
    IF plan.destination_path = NoPath
    THEN Failed(ps, files, gone, plan, "No destination specified")
    ELSE IF fault = "mkdir"
    THEN Failed(ps, files, gone, plan, "OSError")
    ELSE Logged(ps, files, gone, plan, "Moved")

\* _execute_rename with dry_run
dry_execute_rename(ps, files, gone, plan) ==
    IF plan.suggested_name = NoName
    THEN Failed(ps, files, gone, plan, "No suggested name provided")
    ELSE Logged(ps, files, gone, plan, "Renamed")

\* _execute_plan_impl (file variant) with dry_run
dry_execute_plan_impl(ps, files, gone, plan, fault) ==
    IF plan.source_path \notin files
    THEN Failed(ps, files, gone, plan, "Source file no longer exists")
    ELSE CASE plan.action = MOVE -> dry_execute_move(ps, files, gone, plan, fault)
           [] plan.action = DELETE ->
                Logged(ps, files, gone, plan, "Deleted (moved to Trash)")
           [] plan.action = ARCHIVE -> Logged(ps, files, gone, plan, "Archived")
           [] plan.action = RENAME -> dry_execute_rename(ps, files, gone, plan)
           [] plan.action = SKIP -> Logged(ps, files, gone, plan, "Skipped as requested")
           [] OTHER -> Outcome(ps, files, gone, FALSE, "Unknown action")

\* the directories an execution with dry_run creates: dest.parent of a move
\* whose source exists
dry_made_dirs(files, plan, fault) ==
    IF /\ plan.source_path \in files /\ plan.action = MOVE
       /\ plan.destination_path # NoPath /\ fault # "mkdir"
    THEN {<<plan.destination_path[1], plan.destination_path[2]>>}
    ELSE {}

\* the approved plans of this specification
ApprovedPlans ==
    {[NewPlan(src, action, dest, "document", NoDomain, NoSub, 90, "Matched rule",
              "rules")
      EXCEPT !.id = 1, !.status = APPROVED, !.suggested_name = name] :
        src \in FileSources, action \in FileAction,
        dest \in {NoPath, AreaPath("Finance", "Documents", "scan.pdf")},
        name \in {NoName, CleanName}}

DrySettings(dirs) == [dry_run |-> TRUE, dirs |-> dirs]

InitDryRun ==
    /\ variant = "file"
    /\ plans \in {<<p>> : p \in ApprovedPlans}
    /\ corrections = <<>>
    /\ fs \in SUBSET (FileSources \cup {AreaPath("Finance", "Documents", "scan.pdf")})
    /\ lost = {}
    /\ now = 0
    /\ orgPc = "idle"
    /\ orgDir = "none"
    /\ orgList = <<>>
    /\ orgFiles = {}
    /\ nextId = 2
    /\ oracle = NoCall
    /\ service = DrySettings({})

\* the `execute` command with dry_run on the one approved plan of the store
DryRunExecute(fault) ==
    /\ service.dry_run
    /\ get_plans_by_status(plans, APPROVED) # <<>>
    /\ ApplyAll(dry_execute_plan_impl(plans, fs, lost,
                                      Head(get_plans_by_status(plans, APPROVED)), fault))
    /\ service' = DrySettings(service.dirs
                              \cup dry_made_dirs(fs, Head(get_plans_by_status(plans,
                                                                          APPROVED)),
                                                 fault))
    /\ UNCHANGED <<variant, oracle, corrections, now, orgVars, nextId>>

NextDryRun == \E fault \in Faults : DryRunExecute(fault)

SpecDryRun == InitDryRun /\ [][NextDryRun]_vars

\* C29: executing an approved plan with dry_run changes nothing durable: the
\* files and the directories stay as they were and the stored plan stays
\* approved.
C29_DryRunNoEffect ==
    [][\A fault \in Faults :
          DryRunExecute(fault)
          => /\ fs' = fs
             /\ lost' = lost
             /\ service'.dirs = service.dirs
             /\ plans' = plans]_vars


-----------------------------------------------------------------------------
(* The correction store under get_relevant_corrections *)

\* the most corrections a store of this specification holds, and the largest
\* limit a call passes
MaxRelevant == 3
MaxLimit == 2

\* corrections of this specification: "name" was made for scan.pdf, the
\* others for notes.txt with a pattern, one keyword, two keywords or a
\* pattern that does not compile
RelevantKinds == {"name", "pattern", "keyword", "keywords", "bad"}

RelevantCorrection(id, kind, applied) ==
    [(CASE kind = "name" ->
             NewCorrection(id, "scan.pdf", ARCHIVE, NoDomain, NoSub, NoPattern, <<>>)
        [] kind = "pattern" ->
             NewCorrection(id, "notes.txt", ARCHIVE, NoDomain, NoSub, <<"scan">>, <<>>)
        [] kind = "keyword" ->
             NewCorrection(id, "notes.txt", ARCHIVE, NoDomain, NoSub, NoPattern,
                           <<"scan">>)
        [] kind = "keywords" ->
             NewCorrection(id, "notes.txt", ARCHIVE, NoDomain, NoSub, NoPattern,
                           <<"Scan", ".pdf">>)
        [] OTHER ->
             NewCorrection(id, "notes.txt", ARCHIVE, NoDomain, NoSub, BadPattern, <<>>))
     EXCEPT !.times_applied = applied]

RelevantStores ==
    UNION {{[i \in 1..n |-> RelevantCorrection(i, kinds[i], applied[i])] :
               kinds \in [1..n -> RelevantKinds], applied \in [1..n -> 0..1]} :
           n \in 0..MaxRelevant}

\* a call of get_relevant_corrections and what the calls so far returned
Lookup(filename, limit, calls, first, result) ==
    [filename |-> filename, limit |-> limit, calls |-> calls, first |-> first,
     result |-> result]

InitRelevant ==
    /\ variant \in {"file", "note"}
    /\ plans = <<>>
    /\ corrections \in RelevantStores
    /\ fs = {}
    /\ lost = {}
    /\ now = 0
    /\ orgPc = "idle"
    /\ orgDir = "none"
    /\ orgList = <<>>
    /\ orgFiles = {}
    /\ nextId = 1
    /\ oracle = NoCall
    /\ service \in {Lookup(filename, limit, 0, <<>>, <<>>) :
                       filename \in {"scan.pdf", "2024-scan.pdf", "notes.txt"},
                       limit \in 0..MaxLimit}

\* get_relevant_corrections(filename, limit) is called on the store
GetRelevantCorrections ==
    /\ service.calls < 2
    /\ service' =
           Lookup(service.filename, service.limit, service.calls + 1,
                  IF service.calls = 0
                  THEN get_relevant_corrections(corrections, service.filename,
                                                service.limit)
                  ELSE service.first,
                  get_relevant_corrections(corrections, service.filename,
                                           service.limit))
    /\ UNCHANGED <<variant, oracle, plans, corrections, fs, lost, now, orgVars, nextId>>

NextRelevant == GetRelevantCorrections

SpecRelevant == InitRelevant /\ [][NextRelevant]_vars

\* the score in the words of the claim
ClaimedScore(c, name) ==
    (IF c.filename_pattern # NoPattern /\ Compiles(c.filename_pattern)
        /\ RegexSearch(c.filename_pattern, name) THEN 5 ELSE 0)
    + 2 * KeywordHits(c, name)
    + (IF IsSubName(LowerAll(Tokens(c.original_filename)), LowerAll(Tokens(name)))
       THEN 3 ELSE 0)

Scored(cs, name) == {i \in 1..Len(cs) : ClaimedScore(cs[i], name) > 0}

Smaller(a, b) == IF a < b THEN a ELSE b

====
